---------------------------- MODULE Spec2Model ----------------------------
(***************************************************************************)
(* distronomicon: the install transaction pipeline (cli.rs), the layout    *)
(* manager (fsops.rs), the state store (state.rs), the version reader      *)
(* (version.rs) and the per-app lock (lock.rs).                            *)
(*                                                                         *)
(* Two specifications share the variables:                                 *)
(*   SpecLock  processes that call lock::acquire and drop the guard;       *)
(*   Spec      update and check runs of one app, one run at a time, each   *)
(*             fallible step of which may fail.                            *)
(***************************************************************************)
EXTENDS Integers, Sequences, FiniteSets, TLC

(***************************************************************************)
(* Bounds                                                                  *)
(***************************************************************************)
NumProcs == 3
MaxInode == 4
NumTags == 2
MaxRuns == 2
MaxPublish == 2
MaxRetain == 1

Procs == 1..NumProcs
Inodes == 1..MaxInode
\* A tag is an opaque name; the integers stand for names in their
\* lexicographic order (v1 < v2 < v3).
Tags == 1..NumTags
NoTag == 0
Retains == 0..MaxRetain

VARIABLES
  \* ---- lock.rs ----
  lockPath,     \* inode linked at <state_dir>/<app>/lock, 0 when absent
  flock,        \* flock[i]: the process whose open file holds the advisory lock on inode i, 0 when free
  fd,           \* fd[p]: the inode process p has open (LockGuard.file), 0 when none
  lpc,          \* lpc[p]: position of process p in acquire / drop
  \* ---- layout under <root>/<app> ----
  releases,     \* tag -> [execs, mtime, staged] for the existing releases/<tag>
  staging,      \* run id -> staging directory record
  binExists,    \* bin/ exists
  bin,          \* entry name -> link record, for the entries of bin/
  clock,        \* filesystem time
  \* ---- state.rs ----
  state,        \* state.json: NoState or [latest_tag, val]
  stateTmp,     \* the temp file of save_atomic exists
  \* ---- remote catalog ----
  remote,       \* latest release the server describes: [tag, execs, val]
  published,    \* number of publications so far
  \* ---- handle_update ----
  upc,          \* position of the update run
  uloc,         \* its locals
  uResult,      \* what handle_update returned: "none", "ok", "err"
  trace,        \* layout events of the run, in program order
  pre,          \* the layout and state document as the run started
  runs,         \* runs started so far
  \* ---- handle_check ----
  cpc,          \* position of the check run
  cloc,         \* its locals
  \* ---- a library function called on its own ----
  call,         \* the function and its arguments
  work          \* its locals and, at the end, what it returned

lockVars == <<lockPath, flock, fd, lpc>>
fsVars == <<releases, staging, binExists, bin, clock>>
stVars == <<state, stateTmp>>
remVars == <<remote, published>>
updVars == <<upc, uloc, uResult, trace, pre, runs>>
chkVars == <<cpc, cloc>>
fnVars == <<call, work>>
vars == <<lockPath, flock, fd, lpc,
          releases, staging, binExists, bin, clock,
          state, stateTmp, remote, published,
          upc, uloc, uResult, trace, pre, runs, cpc, cloc, call, work>>

(***************************************************************************)
(* lock.rs                                                                 *)
(***************************************************************************)

\* Inodes that are neither linked at the lock path nor open in a process.
FreeInodes == {i \in Inodes : i # lockPath /\ \A p \in Procs : fd[p] # i}

\* File::create(&lock_path): O_CREAT|O_TRUNC opens the inode linked at the
\* path, or links a fresh inode there when the path is absent.
FileCreate(p) ==
  /\ lpc[p] = "idle"
  /\ IF lockPath # 0
       THEN /\ fd' = [fd EXCEPT ![p] = lockPath]
            /\ UNCHANGED lockPath
       ELSE /\ FreeInodes # {}
            /\ LET fresh == CHOOSE i \in FreeInodes : \A j \in FreeInodes : i <= j IN
                 /\ lockPath' = fresh
                 /\ fd' = [fd EXCEPT ![p] = fresh]
  /\ lpc' = [lpc EXCEPT ![p] = "open"]
  /\ UNCHANGED flock

\* create_dir_all or File::create fails: acquire returns LockError::Io.
AcquireIoError(p) ==
  /\ lpc[p] = "idle"
  /\ lpc' = [lpc EXCEPT ![p] = "failed"]
  /\ UNCHANGED <<lockPath, flock, fd>>

\* file.try_lock() succeeds: flock(LOCK_EX|LOCK_NB) on the open inode.
TryLockOk(p) ==
  /\ lpc[p] = "open"
  /\ flock[fd[p]] = 0
  /\ flock' = [flock EXCEPT ![fd[p]] = p]
  /\ lpc' = [lpc EXCEPT ![p] = "held"]
  /\ UNCHANGED <<lockPath, fd>>

\* try_lock failed and start.elapsed() >= timeout: LockError::Busy. The
\* file is closed as `file` goes out of scope; the path stays.
AcquireBusy(p) ==
  /\ lpc[p] = "open"
  /\ flock[fd[p]] # 0
  /\ fd' = [fd EXCEPT ![p] = 0]
  /\ lpc' = [lpc EXCEPT ![p] = "failed"]
  /\ UNCHANGED <<lockPath, flock>>

\* LockGuard::drop, first statement: self.file.unlock()
DropUnlock(p) ==
  /\ lpc[p] = "held"
  /\ flock' = [flock EXCEPT ![fd[p]] = 0]
  /\ lpc' = [lpc EXCEPT ![p] = "unlocked"]
  /\ UNCHANGED <<lockPath, fd>>

\* LockGuard::drop, second statement: fs::remove_file(&self.path) unlinks
\* whatever inode is linked at the path; then the File field is closed.
DropRemove(p) ==
  /\ lpc[p] = "unlocked"
  /\ lockPath' = 0
  /\ fd' = [fd EXCEPT ![p] = 0]
  /\ lpc' = [lpc EXCEPT ![p] = "idle"]
  /\ UNCHANGED flock

\* The process that got an error from acquire exits; another run may start.
LockRetry(p) ==
  /\ lpc[p] = "failed"
  /\ lpc' = [lpc EXCEPT ![p] = "idle"]
  /\ UNCHANGED <<lockPath, flock, fd>>

\* an unlock that leaves a file on which a lock is held
UnlockUnlessHeld ==
  /\ lockPath' = IF lockPath # 0 /\ flock[lockPath] # 0 THEN lockPath ELSE 0
  /\ UNCHANGED <<flock, fd, lpc>>

\* lock::unlock: remove_file on the lock path, NotFound is Ok.
Unlock ==
  /\ lockPath' = 0
  /\ UNCHANGED <<flock, fd, lpc>>

HoldsGuard(p) == lpc[p] = "held"

(***************************************************************************)
(* Data of the layout                                                      *)
(***************************************************************************)

\* Executables of an archive, by path relative to the release directory.
ExeA == [dir |-> "", name |-> "a"]
ExeB == [dir |-> "", name |-> "b"]
ExeDA == [dir |-> "d", name |-> "a"]
ExeATmp == [dir |-> "", name |-> "a.tmp"]
ExecPaths == {ExeA, ExeB, ExeDA, ExeATmp}
\* The archives a release may carry (the set of executables each unpacks to).
Archives == { {}, {ExeA}, {ExeA, ExeB}, {ExeA, ExeDA}, {ExeA, ExeATmp} }

\* Utf8Path::file_name of a relative path
FileName(path) == path.name

\* one temp name for every link
TmpNameShared(filename) == "x"

\* format!("{filename}.tmp")
TmpName(filename) == filename \o ".tmp"

\* Entry names of bin/ and their byte-wise lexicographic order (str::cmp).
BinNames == {"a", "a.tmp", "a.tmp.tmp", "b", "b.tmp", "x"}
NameRank(n) ==
  CASE n = "a" -> 1
    [] n = "a.tmp" -> 2
    [] n = "a.tmp.tmp" -> 3
    [] n = "b" -> 4
    [] n = "b.tmp" -> 5
    [] n = "x" -> 6

\* A symlink of bin/. managed: the target begins with "../releases/", and
\* is ../releases/<tag>/<path>. A link that is not managed points outside
\* the layout (no `releases` component in its target).
ManagedLink(tag, path) == [managed |-> TRUE, tag |-> tag, path |-> path]
ForeignLink == [managed |-> FALSE, tag |-> NoTag, path |-> ExeA]

\* state.json absent
NoState == [exists |-> FALSE, latest_tag |-> NoTag, etag |-> 0,
            last_modified |-> 0, installed_at |-> 0]
\* fetch_result.release absent (304)
NoRelease == [some |-> FALSE, tag |-> NoTag, execs |-> {}]

\* Timestamps travel as strings in two formats: the state document and
\* Timestamp::to_string use RFC 3339, the Last-Modified header is an
\* HTTP date (RFC 2822 style).
TimestampToString(t) == [fmt |-> "rfc3339", t |-> t]
HttpDate(t) == [fmt |-> "rfc2822", t |-> t]
NoTime == 0 - 1
\* a response without the ETag header, without the Last-Modified header
NoEtag == 0 - 1
NoLastModified == [fmt |-> "none", t |-> 0]
\* str::parse::<jiff::Timestamp>: accepts RFC 3339 only
ParseTimestamp(s) == IF s.fmt = "rfc3339" THEN s.t ELSE NoTime

Remove(f, k) == [n \in (DOMAIN f) \ {k} |-> f[n]]
Put(f, k, v) == [n \in (DOMAIN f) \cup {k} |-> IF n = k THEN v ELSE f[n]]

Perms(S) ==
  {q \in [1..Cardinality(S) -> S] : \A i, j \in 1..Cardinality(S) : i # j => q[i] # q[j]}

(***************************************************************************)
(* version.rs                                                              *)
(***************************************************************************)

\* extract_tag_from_path on the target of a link, resolved against bin/:
\* the component that follows `releases`, NoTag when there is none.
ExtractTag(link) == IF link.managed THEN link.tag ELSE NoTag

\* current_tag: the tag of the qualifying symlink with the greatest name.
CurrentTag(dirExists, dir) ==
  LET qual == {n \in DOMAIN dir : ExtractTag(dir[n]) # NoTag} IN
    IF ~dirExists \/ qual = {} THEN NoTag
    ELSE LET last == CHOOSE n \in qual : \A m \in qual : NameRank(m) <= NameRank(n)
         IN ExtractTag(dir[last])

(***************************************************************************)
(* cli.rs: is_up_to_date                                                   *)
(***************************************************************************)
\* is_up_to_date without the `!was_modified` of its first test
IsUpToDateIgnoringModified(current, release, existing, was_modified) ==
  \/ /\ current # NoTag
     /\ existing.exists
     /\ current = existing.latest_tag
  \/ /\ current # NoTag
     /\ release.some
     /\ current = release.tag

IsUpToDate(current, release, existing, was_modified) ==
  \/ /\ ~was_modified
     /\ current # NoTag
     /\ existing.exists
     /\ current = existing.latest_tag
  \/ /\ current # NoTag
     /\ release.some
     /\ current = release.tag

(***************************************************************************)
(* fsops.rs: prune_old_releases                                            *)
(***************************************************************************)

\* sort_by(|a, b| b.1.cmp(&a.1).then_with(|| b.0.cmp(&a.0))): u sorts
\* before t when it is newer, or as old with a greater name.
SortsBefore(rel, u, t) ==
  \/ rel[u].mtime > rel[t].mtime
  \/ rel[u].mtime = rel[t].mtime /\ u > t

\* index of t in sorted_entries
SortedIndex(rel, t) == Cardinality({u \in DOMAIN rel : SortsBefore(rel, u, t)})

\* to_delete without the filter that spares current_tag
ToDeleteIgnoringCurrent(rel, current, retain) ==
  {t \in DOMAIN rel : SortedIndex(rel, t) >= retain}

\* to_delete with a filter that spares the newest entry instead
ToDeleteSparingNewest(rel, current, retain) ==
  {t \in DOMAIN rel : SortedIndex(rel, t) >= retain /\ SortedIndex(rel, t) # 0}

\* to_delete with a window one entry too wide
ToDeleteSkipOneMore(rel, current, retain) ==
  {t \in DOMAIN rel : SortedIndex(rel, t) >= retain + 1 /\ t # current}

\* a prune that selects nothing
ToDeleteNone(rel, current, retain) == {}

\* to_delete: skip(retain), then filter(|tag| tag != current_tag)
ToDelete(rel, current, retain) ==
  {t \in DOMAIN rel : SortedIndex(rel, t) >= retain /\ t # current}

(***************************************************************************)
(* fsops.rs: link_binaries, the stale-link sweep                           *)
(***************************************************************************)

\* current_names
CurrentNames(execs) == {FileName(e) : e \in execs}

\* a link_binaries that sweeps nothing
StaleLinksNone(dir, execs) == {}

\* a sweep that does not look at the targets
StaleLinksAnyTarget(dir, execs) ==
  {n \in DOMAIN dir : n \notin CurrentNames(execs)}

\* the links the sweep removes
StaleLinks(dir, execs) ==
  {n \in DOMAIN dir : dir[n].managed /\ n \notin CurrentNames(execs)}

Sweep(dir, execs) ==
  [n \in (DOMAIN dir) \ StaleLinks(dir, execs) |-> dir[n]]

(***************************************************************************)
(* Initial state: a fresh layout (nothing installed, no state document,    *)
(* no lock file), with or without a non-managed symlink already placed in  *)
(* bin/; the remote has published nothing yet.                             *)
(***************************************************************************)
NoRemote == [some |-> FALSE, tag |-> NoTag, execs |-> {}, val |-> 0, lm |-> 0]

InitLoc == [existing |-> NoState, release |-> NoRelease, was_modified |-> FALSE,
            etag |-> 0, lm |-> HttpDate(0), current |-> NoTag, tag |-> NoTag,
            sid |-> 0, todo |-> <<>>, restart_failed |-> FALSE,
            retain |-> 0, prune_failed |-> {}, wrote |-> FALSE,
            verify |-> "", err |-> ""]

Snapshot == [bin |-> bin, binExists |-> binExists, state |-> state,
             releases |-> releases, staging |-> staging]

NoSnapshot == [bin |-> <<>>, binExists |-> FALSE, state |-> NoState,
               releases |-> <<>>, staging |-> <<>>]

\* no library function is called on its own
NoCall == [fn |-> "none"]
NoWork == [done |-> FALSE]

FreshLayout ==
  /\ lockPath = 0
  /\ flock = [i \in Inodes |-> 0]
  /\ fd = [p \in Procs |-> 0]
  /\ lpc = [p \in Procs |-> "idle"]
  /\ releases = <<>>
  /\ staging = <<>>
  /\ \/ binExists = FALSE /\ bin = <<>>
     \/ binExists = TRUE /\ bin = [n \in {"x"} |-> ForeignLink]
  /\ clock = 1
  /\ state = NoState
  /\ stateTmp = FALSE
  /\ remote = NoRemote
  /\ published = 0
  /\ upc = "idle"
  /\ uloc = InitLoc
  /\ uResult = "none"
  /\ trace = <<>>
  /\ pre = NoSnapshot
  /\ runs = 0
  /\ cpc = "idle"
  /\ cloc = InitLoc

Init == FreshLayout /\ call = NoCall /\ work = NoWork

(***************************************************************************)
(* The remote catalog: a new latest release is published. Its ETag is new  *)
(* with every publication.                                                 *)
(***************************************************************************)
Publish ==
  /\ upc = "idle" /\ cpc = "idle"
  /\ published < MaxPublish
  /\ \E t \in Tags, a \in Archives :
       remote' = [some |-> TRUE, tag |-> t, execs |-> a,
                  val |-> published + 1, lm |-> clock]
  /\ published' = published + 1
  /\ UNCHANGED <<fnVars, lockVars, fsVars, stVars, updVars, chkVars>>

(***************************************************************************)
(* github.rs: fetch_latest, as it answers the validators of `existing`     *)
(***************************************************************************)
\* 304 when the If-None-Match validator is the current ETag
NotModified(existing) == existing.exists /\ existing.etag = remote.val

FetchedRelease(existing) ==
  IF NotModified(existing) THEN NoRelease
  ELSE [some |-> TRUE, tag |-> remote.tag, execs |-> remote.execs]

(***************************************************************************)
(* cli.rs: handle_update. The run is process 1 of the lock.                *)
(***************************************************************************)
Updater == 1

Log(e) == trace' = Append(trace, e)

\* an error return that keeps the guard
AbortKeepingGuard(kind) ==
  /\ uloc' = [uloc EXCEPT !.err = kind]
  /\ uResult' = "err"
  /\ upc' = "done"

\* an error return after the guard exists: the guard is dropped on the way out
Abort(kind) ==
  /\ uloc' = [uloc EXCEPT !.err = kind]
  /\ uResult' = "err"
  /\ upc' = "drop_unlock"

UStart ==
  /\ upc = "idle" /\ cpc = "idle"
  /\ runs < MaxRuns
  /\ runs' = runs + 1
  /\ pre' = Snapshot
  /\ trace' = <<>>
  /\ uloc' = InitLoc
  /\ uResult' = "none"
  /\ upc' = "force_unlock"
  /\ UNCHANGED <<fnVars, lockVars, fsVars, stVars, remVars, chkVars>>

\* if update_args.force_unlock { lock::unlock(..)? }
UForceUnlock ==
  /\ upc = "force_unlock"
  /\ \E force_unlock \in BOOLEAN :
       IF force_unlock THEN Unlock ELSE UNCHANGED lockVars
  /\ upc' = "acquire"
  /\ UNCHANGED <<fnVars, fsVars, stVars, remVars, chkVars, uloc, uResult, trace, pre, runs>>

\* lock::acquire: File::create
UAcquireCreate ==
  /\ upc = "acquire"
  /\ FileCreate(Updater)
  /\ upc' = "try_lock"
  /\ UNCHANGED <<fnVars, fsVars, stVars, remVars, chkVars, uloc, uResult, trace, pre, runs>>

\* lock::acquire returns LockError::Io: handle_update returns without a guard
UAcquireError ==
  /\ upc = "acquire"
  /\ AcquireIoError(Updater)
  /\ uloc' = [uloc EXCEPT !.err = "io"]
  /\ uResult' = "err"
  /\ upc' = "done"
  /\ UNCHANGED <<fnVars, fsVars, stVars, remVars, chkVars, trace, pre, runs>>

\* lock::acquire: try_lock succeeds, the guard is returned
UTryLock ==
  /\ upc = "try_lock"
  /\ TryLockOk(Updater)
  /\ upc' = "load"
  /\ UNCHANGED <<fnVars, fsVars, stVars, remVars, chkVars, uloc, uResult, trace, pre, runs>>

\* state::load(&state_path)?
ULoad ==
  /\ upc = "load"
  /\ uloc' = [uloc EXCEPT !.existing = state]
  /\ upc' = "fetch"
  /\ UNCHANGED <<fnVars, lockVars, fsVars, stVars, remVars, chkVars, uResult, trace, pre, runs>>

\* github::fetch_latest()...validators(validators).await?
UFetch ==
  /\ upc = "fetch"
  /\ remote.some
  /\ uloc' = [uloc EXCEPT !.release = FetchedRelease(uloc.existing),
                          !.was_modified = ~NotModified(uloc.existing),
                          !.etag = remote.val,
                          !.lm = HttpDate(remote.lm)]
  /\ upc' = "current"
  /\ UNCHANGED <<fnVars, lockVars, fsVars, stVars, remVars, chkVars, uResult, trace, pre, runs>>

\* an up-to-date return that stores the validators of the response
UUpToDateRefreshing ==
  /\ upc = "current"
  /\ LET cur == CurrentTag(binExists, bin) IN
       /\ IsUpToDate(cur, uloc.release, uloc.existing, uloc.was_modified)
       /\ uloc' = [uloc EXCEPT !.current = cur]
  /\ state' = IF state.exists THEN [state EXCEPT !.etag = uloc.etag] ELSE state
  /\ uResult' = "ok"
  /\ upc' = "drop_unlock"
  /\ UNCHANGED <<fnVars, lockVars, fsVars, stateTmp, remVars, chkVars, trace, pre, runs>>

\* version::current_tag(..)? and is_up_to_date(..) true: return Ok(())
UUpToDate ==
  /\ upc = "current"
  /\ LET cur == CurrentTag(binExists, bin) IN
       /\ IsUpToDate(cur, uloc.release, uloc.existing, uloc.was_modified)
       /\ uloc' = [uloc EXCEPT !.current = cur]
  /\ uResult' = "ok"
  /\ upc' = "drop_unlock"
  /\ UNCHANGED <<fnVars, lockVars, fsVars, stVars, remVars, chkVars, trace, pre, runs>>

\* a "No release available" return that drops the stored ETag
UNoReleaseClearingValidators ==
  /\ upc = "current"
  /\ LET cur == CurrentTag(binExists, bin) IN
       /\ ~IsUpToDate(cur, uloc.release, uloc.existing, uloc.was_modified)
       /\ ~uloc.release.some
       /\ uloc' = [uloc EXCEPT !.current = cur, !.err = "no_release"]
  /\ state' = IF state.exists THEN [state EXCEPT !.etag = 0] ELSE state
  /\ uResult' = "err"
  /\ upc' = "drop_unlock"
  /\ UNCHANGED <<fnVars, lockVars, fsVars, stateTmp, remVars, chkVars, trace, pre, runs>>

\* fetch_result.release.ok_or_else(|| anyhow!("No release available"))?
UNoRelease ==
  /\ upc = "current"
  /\ LET cur == CurrentTag(binExists, bin) IN
       /\ ~IsUpToDate(cur, uloc.release, uloc.existing, uloc.was_modified)
       /\ ~uloc.release.some
       /\ uloc' = [uloc EXCEPT !.current = cur, !.err = "no_release"]
  /\ uResult' = "err"
  /\ upc' = "drop_unlock"
  /\ UNCHANGED <<fnVars, lockVars, fsVars, stVars, remVars, chkVars, trace, pre, runs>>

\* let tag = &release.tag_name; info!("Updating to {tag}")
UUpdating ==
  /\ upc = "current"
  /\ LET cur == CurrentTag(binExists, bin) IN
       /\ ~IsUpToDate(cur, uloc.release, uloc.existing, uloc.was_modified)
       /\ uloc.release.some
       /\ uloc' = [uloc EXCEPT !.current = cur, !.tag = uloc.release.tag]
  /\ upc' = "select"
  /\ UNCHANGED <<fnVars, lockVars, fsVars, stVars, remVars, chkVars, uResult, trace, pre, runs>>

(***************************************************************************)
(* cli.rs: download_and_verify_asset                                       *)
(***************************************************************************)
\* github::select_asset(..) finds the asset
USelectAsset ==
  /\ upc = "select"
  /\ upc' = "download"
  /\ UNCHANGED <<fnVars, lockVars, fsVars, stVars, remVars, chkVars, uloc, uResult, trace, pre, runs>>

\* .ok_or_else(|| anyhow!("No asset matching pattern"))?
UNoAsset ==
  /\ upc = "select"
  /\ Abort("no_asset")
  /\ UNCHANGED <<fnVars, lockVars, fsVars, stVars, remVars, chkVars, trace, pre, runs>>

\* download::fetch()...await? succeeds: the asset is in a temp file
UDownload ==
  /\ upc = "download"
  /\ upc' = "verify"
  /\ UNCHANGED <<fnVars, lockVars, fsVars, stVars, remVars, chkVars, uloc, uResult, trace, pre, runs>>

\* What the verification block can find: no checksum asset matches, the
\* manifest request or its parse fails, the manifest has no entry for the
\* asset (VerifyError::NotFound), the digest differs (VerifyError::Mismatch),
\* or the digest matches.
VerifyOutcomes == {"no_checksum_asset", "manifest", "not_found", "mismatch", "match"}

\* Whether the verification block runs: !skip_verification && checksum_pattern
\* is Some (clap requires --checksum-pattern unless --skip-verification).
Verifies(skip_verification) == ~skip_verification

\* a gate that lets every outcome of the manifest lookup through
VerifyPassesAlways(outcome) == TRUE

\* fetch_and_verify_checksum(..).await? lets the run go on
VerifyPasses(outcome) == outcome = "match"

UVerify ==
  /\ upc = "verify"
  /\ \E skip_verification \in BOOLEAN, outcome \in VerifyOutcomes :
       IF ~Verifies(skip_verification)
         THEN /\ uloc' = [uloc EXCEPT !.verify = "skipped"]
              /\ upc' = "make_staging"
              /\ UNCHANGED uResult
         ELSE IF VerifyPasses(outcome)
           THEN /\ uloc' = [uloc EXCEPT !.verify = outcome]
                /\ upc' = "make_staging"
                /\ UNCHANGED uResult
           ELSE /\ uloc' = [uloc EXCEPT !.verify = outcome, !.err = outcome]
                /\ uResult' = "err"
                /\ upc' = "drop_unlock"
  /\ UNCHANGED <<fnVars, lockVars, fsVars, stVars, remVars, chkVars, trace, pre, runs>>

(***************************************************************************)
(* cli.rs: install_release                                                 *)
(***************************************************************************)
\* fsops::make_staging: a fresh <tag>.<random> directory under staging/
UMakeStaging ==
  /\ upc = "make_staging"
  /\ staging' = Put(staging, runs, [tag |-> uloc.tag, archive |-> FALSE,
                                   unpacked |-> FALSE, synced |-> FALSE,
                                   execs |-> {}, mtime |-> clock])
  /\ uloc' = [uloc EXCEPT !.sid = runs]
  /\ Log("staging_create")
  /\ upc' = "copy"
  /\ UNCHANGED <<fnVars, lockVars, releases, binExists, bin, clock, stVars, remVars, chkVars,
                 uResult, pre, runs>>

\* fs::copy(downloaded_file.path(), &temp_with_ext)?
UCopy ==
  /\ upc = "copy"
  /\ staging' = [staging EXCEPT ![uloc.sid].archive = TRUE]
  /\ upc' = "unpack"
  /\ UNCHANGED <<fnVars, lockVars, releases, binExists, bin, clock, stVars, remVars, chkVars,
                 uloc, uResult, trace, pre, runs>>

\* an unpack whose error is dropped: the pipeline goes on with whatever the
\* extraction left in the staging directory
UUnpackIgnoringError ==
  /\ upc = "unpack"
  /\ \E ok \in BOOLEAN :
       staging' = IF ok
                    THEN [staging EXCEPT ![uloc.sid].unpacked = TRUE,
                                         ![uloc.sid].execs = uloc.release.execs]
                    ELSE staging
  /\ Log("unpack")
  /\ upc' = "rm_archive"
  /\ UNCHANGED <<fnVars, lockVars, releases, binExists, bin, clock, stVars, remVars, chkVars,
                 uloc, uResult, pre, runs>>

\* extract::unpack(&temp_with_ext, &staging_dir)?
UUnpack ==
  /\ upc = "unpack"
  /\ staging' = [staging EXCEPT ![uloc.sid].unpacked = TRUE,
                                ![uloc.sid].execs = uloc.release.execs]
  /\ Log("unpack")
  /\ upc' = "rm_archive"
  /\ UNCHANGED <<fnVars, lockVars, releases, binExists, bin, clock, stVars, remVars, chkVars,
                 uloc, uResult, pre, runs>>

\* fs::remove_file(&temp_with_ext)?: the last change of the staging
\* directory's entries, which dates the directory
URemoveArchive ==
  /\ upc = "rm_archive"
  /\ clock' = clock + 1
  /\ staging' = [staging EXCEPT ![uloc.sid].archive = FALSE,
                                ![uloc.sid].mtime = clock + 1]
  /\ upc' = "fsync_tree"
  /\ UNCHANGED <<fnVars, lockVars, releases, binExists, bin, stVars, remVars, chkVars,
                 uloc, uResult, trace, pre, runs>>

\* fsops::fsync_directory_tree(&staging_dir)?
UFsyncTree ==
  /\ upc = "fsync_tree"
  /\ staging' = [staging EXCEPT ![uloc.sid].synced = TRUE]
  /\ Log("fsync_tree")
  /\ upc' = "mk_releases"
  /\ UNCHANGED <<fnVars, lockVars, releases, binExists, bin, clock, stVars, remVars, chkVars,
                 uloc, uResult, pre, runs>>

\* fs::create_dir_all(&releases_dir)?; File::open(&releases_dir)?.sync_all()?
UMkReleases ==
  /\ upc = "mk_releases"
  /\ Log("mk_releases")
  /\ upc' = "move"
  /\ UNCHANGED <<fnVars, lockVars, fsVars, stVars, remVars, chkVars, uloc, uResult, pre, runs>>

\* a plain rename, which replaces an existing target
RenameReplaces(rel, tag) == TRUE

\* renameat_with(.., RenameFlags::NOREPLACE) succeeds
RenameNoReplaceOk(rel, tag) == tag \notin DOMAIN rel

\* fsops::atomic_move: the rename. The staging directory becomes
\* releases/<tag>, or the rename fails with AlreadyExists.
UAtomicMove ==
  /\ upc = "move"
  /\ IF RenameNoReplaceOk(releases, uloc.tag)
       THEN /\ releases' = Put(releases, uloc.tag, staging[uloc.sid])
            /\ staging' = Remove(staging, uloc.sid)
            /\ Log("atomic_move")
            /\ upc' = "move_sync"
            /\ UNCHANGED <<uloc, uResult>>
       ELSE /\ Abort("already_exists")
            /\ UNCHANGED <<releases, staging, trace>>
  /\ UNCHANGED <<fnVars, lockVars, binExists, bin, clock, stVars, remVars, chkVars, pre, runs>>

\* an atomic_move that does not sync the parent directory
UMoveSyncSkipped ==
  /\ upc = "move_sync"
  /\ upc' = "mk_bin"
  /\ UNCHANGED <<fnVars, lockVars, fsVars, stVars, remVars, chkVars, uloc, uResult, trace,
                 pre, runs>>

\* a pipeline that prunes the old releases as soon as the new one is
\* in place, before the links are rewritten
UMoveSyncPruning ==
  /\ upc = "move_sync"
  /\ \E retain \in Retains :
       releases' = [t \in (DOMAIN releases) \ ToDelete(releases, uloc.tag, retain)
                      |-> releases[t]]
  /\ Log("fsync_releases")
  /\ upc' = "mk_bin"
  /\ UNCHANGED <<fnVars, lockVars, staging, binExists, bin, clock, stVars, remVars, chkVars,
                 uloc, uResult, pre, runs>>

\* fsops::atomic_move: File::open(releases_dir)?.sync_all()?
UMoveSync ==
  /\ upc = "move_sync"
  /\ Log("fsync_releases")
  /\ upc' = "mk_bin"
  /\ UNCHANGED <<fnVars, lockVars, fsVars, stVars, remVars, chkVars, uloc, uResult, pre, runs>>

\* fs::create_dir_all(&bin_dir)?
UMkBin ==
  /\ upc = "mk_bin"
  /\ binExists' = TRUE
  /\ upc' = "discover"
  /\ UNCHANGED <<fnVars, lockVars, releases, staging, bin, clock, stVars, remVars, chkVars,
                 uloc, uResult, trace, pre, runs>>

(***************************************************************************)
(* fsops.rs: link_binaries                                                 *)
(***************************************************************************)
\* discover_executables(release_dir)?: the executables in read_dir order
UDiscover ==
  /\ upc = "discover"
  /\ \E order \in Perms(releases[uloc.tag].execs) :
       uloc' = [uloc EXCEPT !.todo = order]
  /\ upc' = "sweep"
  /\ UNCHANGED <<fnVars, lockVars, fsVars, stVars, remVars, chkVars, uResult, trace, pre, runs>>

\* where the loop over `executables` stands
LinkLoop(todo) == IF todo = <<>> THEN "fsync_bin" ELSE "link_rm"

\* the stale-link sweep
USweep ==
  /\ upc = "sweep"
  /\ bin' = Sweep(bin, releases[uloc.tag].execs)
  /\ upc' = LinkLoop(uloc.todo)
  /\ UNCHANGED <<fnVars, lockVars, releases, staging, binExists, clock, stVars, remVars, chkVars,
                 uloc, uResult, trace, pre, runs>>

\* let _ = fs::remove_file(&temp_link)
ULinkRemoveTemp ==
  /\ upc = "link_rm"
  /\ bin' = Remove(bin, TmpName(FileName(Head(uloc.todo))))
  /\ upc' = "link_symlink"
  /\ UNCHANGED <<fnVars, lockVars, releases, staging, binExists, clock, stVars, remVars, chkVars,
                 uloc, uResult, trace, pre, runs>>

\* std::os::unix::fs::symlink(&target, &temp_link)?
ULinkSymlink ==
  /\ upc = "link_symlink"
  /\ bin' = Put(bin, TmpName(FileName(Head(uloc.todo))),
                ManagedLink(uloc.tag, Head(uloc.todo)))
  /\ upc' = "link_rename"
  /\ UNCHANGED <<fnVars, lockVars, releases, staging, binExists, clock, stVars, remVars, chkVars,
                 uloc, uResult, trace, pre, runs>>

\* fs::rename(&temp_link, &final_link)?
ULinkRename ==
  /\ upc = "link_rename"
  /\ LET filename == FileName(Head(uloc.todo))
         temp == TmpName(filename)
     IN bin' = Put(Remove(bin, temp), filename, bin[temp])
  /\ uloc' = [uloc EXCEPT !.todo = Tail(uloc.todo)]
  /\ Log("symlink")
  /\ upc' = LinkLoop(Tail(uloc.todo))
  /\ UNCHANGED <<fnVars, lockVars, releases, staging, binExists, clock, stVars, remVars, chkVars,
                 uResult, pre, runs>>

\* File::open(bin_dir)?.sync_all()?
UFsyncBin ==
  /\ upc = "fsync_bin"
  /\ Log("fsync_bin")
  /\ upc' = "restart"
  /\ UNCHANGED <<fnVars, lockVars, fsVars, stVars, remVars, chkVars, uloc, uResult, pre, runs>>

(***************************************************************************)
(* cli.rs: finalize_update                                                 *)
(***************************************************************************)
\* a finalize_update that returns the restart error at once
URestartAborting ==
  /\ upc = "restart"
  /\ \E outcome \in {"no_command", "succeeded", "failed"} :
       /\ IF outcome = "no_command" THEN UNCHANGED trace ELSE Log("restart")
       /\ IF outcome = "failed"
            THEN /\ uloc' = [uloc EXCEPT !.restart_failed = TRUE, !.err = "restart"]
                 /\ uResult' = "err"
                 /\ upc' = "drop_unlock"
            ELSE /\ uloc' = [uloc EXCEPT !.restart_failed = FALSE]
                 /\ UNCHANGED uResult
                 /\ upc' = "prune"
  /\ UNCHANGED <<fnVars, lockVars, fsVars, stVars, remVars, chkVars, pre, runs>>

\* if let Some(cmd) = restart_cmd { match restart::execute(cmd) {..} }:
\* a failure is recorded, the run goes on
URestart ==
  /\ upc = "restart"
  /\ \E outcome \in {"no_command", "succeeded", "failed"} :
       /\ uloc' = [uloc EXCEPT !.restart_failed = (outcome = "failed")]
       /\ IF outcome = "no_command" THEN UNCHANGED trace ELSE Log("restart")
  /\ upc' = "prune"
  /\ UNCHANGED <<fnVars, lockVars, fsVars, stVars, remVars, chkVars, uResult, pre, runs>>

\* a prune whose failed deletions end the run with an error
UPruneAborting ==
  /\ upc = "prune"
  /\ \E retain \in Retains :
       \E failed \in SUBSET ToDelete(releases, uloc.tag, retain) :
         LET deleted == ToDelete(releases, uloc.tag, retain) \ failed IN
           /\ releases' = [t \in (DOMAIN releases) \ deleted |-> releases[t]]
           /\ IF failed = {}
                THEN /\ uloc' = [uloc EXCEPT !.retain = retain, !.prune_failed = failed]
                     /\ upc' = "save_tmp"
                     /\ UNCHANGED uResult
                ELSE /\ uloc' = [uloc EXCEPT !.retain = retain, !.prune_failed = failed,
                                             !.err = "prune"]
                     /\ upc' = "drop_unlock"
                     /\ uResult' = "err"
  /\ Log("prune")
  /\ UNCHANGED <<fnVars, lockVars, staging, binExists, bin, clock, stVars, remVars, chkVars,
                 pre, runs>>

\* fsops::prune_old_releases(releases_dir, tag, retain)?: every candidate
\* is removed, or fails to be removed and is reported in `failed`
UPrune ==
  /\ upc = "prune"
  /\ \E retain \in Retains :
       \E failed \in SUBSET ToDelete(releases, uloc.tag, retain) :
         LET deleted == ToDelete(releases, uloc.tag, retain) \ failed IN
           /\ releases' = [t \in (DOMAIN releases) \ deleted |-> releases[t]]
           /\ uloc' = [uloc EXCEPT !.retain = retain, !.prune_failed = failed]
  /\ Log("prune")
  /\ upc' = "save_tmp"
  /\ UNCHANGED <<fnVars, lockVars, staging, binExists, bin, clock, stVars, remVars, chkVars,
                 uResult, pre, runs>>

\* let new_state = State { latest_tag: tag, etag: .., last_modified: .., installed_at: now }
NewState(loc, now) ==
  [exists |-> TRUE,
   latest_tag |-> loc.tag,
   etag |-> loc.etag,
   last_modified |-> IF ParseTimestamp(loc.lm) # NoTime
                       THEN ParseTimestamp(loc.lm) ELSE now,
   installed_at |-> now]

(***************************************************************************)
(* state.rs: save_atomic, as finalize_update calls it                      *)
(***************************************************************************)
\* create_dir_all(parent)?; NamedUtf8TempFile::new_in(parent)?; write_all(json)?
USaveTmp ==
  /\ upc = "save_tmp"
  /\ stateTmp' = TRUE
  /\ Log("state_write")
  /\ upc' = "save_sync"
  /\ UNCHANGED <<fnVars, lockVars, fsVars, state, remVars, chkVars, uloc, uResult, pre, runs>>

\* temp_file.as_file().sync_all()?
USaveSync ==
  /\ upc = "save_sync"
  /\ Log("state_fsync")
  /\ upc' = "save_rename"
  /\ UNCHANGED <<fnVars, lockVars, fsVars, stVars, remVars, chkVars, uloc, uResult, pre, runs>>

\* temp_file.persist(path)?: the rename over state.json
USavePersist ==
  /\ upc = "save_rename"
  /\ state' = NewState(uloc, clock)
  /\ stateTmp' = FALSE
  /\ Log("state_rename")
  /\ upc' = "save_dirsync"
  /\ UNCHANGED <<fnVars, lockVars, fsVars, remVars, chkVars, uloc, uResult, pre, runs>>

\* fs::File::open(parent)?.sync_all()?
USaveDirSync ==
  /\ upc = "save_dirsync"
  /\ Log("fsync_state_dir")
  /\ upc' = "ensure"
  /\ UNCHANGED <<fnVars, lockVars, fsVars, stVars, remVars, chkVars, uloc, uResult, pre, runs>>

\* a finalize_update that runs the restart command once the state is saved
UEnsureRunningHook ==
  /\ upc = "ensure"
  /\ \E outcome \in {"succeeded", "failed"} :
       IF outcome = "failed"
         THEN /\ uloc' = [uloc EXCEPT !.restart_failed = TRUE, !.err = "restart"]
              /\ uResult' = "err"
         ELSE /\ uResult' = "ok"
              /\ UNCHANGED uloc
  /\ Log("restart")
  /\ upc' = "drop_unlock"
  /\ UNCHANGED <<fnVars, lockVars, fsVars, stVars, remVars, chkVars, pre, runs>>

\* ensure!(!restart_failed, ..); Ok(())
UEnsure ==
  /\ upc = "ensure"
  /\ IF uloc.restart_failed
       THEN /\ uloc' = [uloc EXCEPT !.err = "restart"]
            /\ uResult' = "err"
       ELSE /\ uResult' = "ok"
            /\ UNCHANGED uloc
  /\ upc' = "drop_unlock"
  /\ UNCHANGED <<fnVars, lockVars, fsVars, stVars, remVars, chkVars, trace, pre, runs>>

\* The steps whose error the pipeline propagates with `?`.
Fallible ==
  {"force_unlock", "load", "fetch", "current", "download", "make_staging", "copy",
   "unpack", "rm_archive", "fsync_tree", "mk_releases", "move", "move_sync",
   "mk_bin", "discover", "sweep", "link_symlink", "link_rename", "fsync_bin",
   "prune", "save_tmp", "save_sync", "save_rename", "save_dirsync"}

\* One of them fails: the error is returned from where it occurs. Nothing
\* is rolled back; the temp file of save_atomic is removed as it is dropped.
UIoError ==
  /\ upc \in Fallible
  /\ uloc' = [uloc EXCEPT !.err = "io"]
  /\ uResult' = "err"
  /\ stateTmp' = FALSE
  /\ upc' = IF upc = "force_unlock" THEN "done" ELSE "drop_unlock"
  /\ UNCHANGED <<fnVars, lockVars, fsVars, state, remVars, chkVars, trace, pre, runs>>

\* `_lock` goes out of scope: LockGuard::drop
UDropUnlock ==
  /\ upc = "drop_unlock"
  /\ DropUnlock(Updater)
  /\ upc' = "drop_remove"
  /\ UNCHANGED <<fnVars, fsVars, stVars, remVars, chkVars, uloc, uResult, trace, pre, runs>>

UDropRemove ==
  /\ upc = "drop_remove"
  /\ DropRemove(Updater)
  /\ upc' = "done"
  /\ UNCHANGED <<fnVars, fsVars, stVars, remVars, chkVars, uloc, uResult, trace, pre, runs>>

\* the process exits
UReturn ==
  /\ upc = "done"
  /\ upc' = "idle"
  /\ IF lpc[Updater] = "failed" THEN LockRetry(Updater) ELSE UNCHANGED lockVars
  /\ uloc' = InitLoc
  /\ uResult' = "none"
  /\ trace' = <<>>
  /\ pre' = NoSnapshot
  /\ UNCHANGED <<fnVars, fsVars, stVars, remVars, chkVars, runs>>

(***************************************************************************)
(* cli.rs: handle_check (takes no lock)                                    *)
(***************************************************************************)
CStart ==
  /\ cpc = "idle" /\ upc = "idle"
  /\ runs < MaxRuns
  /\ runs' = runs + 1
  /\ cloc' = InitLoc
  /\ cpc' = "load"
  /\ UNCHANGED <<fnVars, lockVars, fsVars, stVars, remVars, upc, uloc, uResult, trace, pre>>

\* state::load(&state_path)?
CLoad ==
  /\ cpc = "load"
  /\ cloc' = [cloc EXCEPT !.existing = state]
  /\ cpc' = "fetch"
  /\ UNCHANGED <<fnVars, lockVars, fsVars, stVars, remVars, updVars>>

\* github::fetch_latest()...await?
CFetch ==
  /\ cpc = "fetch"
  /\ remote.some
  /\ cloc' = [cloc EXCEPT !.release = FetchedRelease(cloc.existing),
                          !.was_modified = ~NotModified(cloc.existing),
                          !.etag = remote.val,
                          !.lm = HttpDate(remote.lm)]
  /\ cpc' = "finish"
  /\ UNCHANGED <<fnVars, lockVars, fsVars, stVars, remVars, updVars>>

\* a comparison of the ETag alone
ValidatorsChangedEtagOnly(loc) == loc.etag # loc.existing.etag

\* etag_changed || last_mod_changed
ValidatorsChanged(loc) ==
  \/ loc.etag # loc.existing.etag
  \/ loc.lm # TimestampToString(loc.existing.last_modified)

\* a refresh that records the tag of the fetched release
UpdatedStateWithReleaseTag(loc) ==
  [exists |-> TRUE,
   latest_tag |-> IF loc.release.some THEN loc.release.tag
                                      ELSE loc.existing.latest_tag,
   etag |-> IF loc.etag # NoEtag THEN loc.etag ELSE loc.existing.etag,
   last_modified |-> IF ParseTimestamp(loc.lm) # NoTime
                       THEN ParseTimestamp(loc.lm)
                       ELSE loc.existing.last_modified,
   installed_at |-> loc.existing.installed_at]

\* State { latest_tag: existing.latest_tag, etag: .., last_modified: .., installed_at: .. }
UpdatedState(loc) ==
  [exists |-> TRUE,
   latest_tag |-> loc.existing.latest_tag,
   etag |-> IF loc.etag # NoEtag THEN loc.etag ELSE loc.existing.etag,
   last_modified |-> IF ParseTimestamp(loc.lm) # NoTime
                       THEN ParseTimestamp(loc.lm)
                       ELSE loc.existing.last_modified,
   installed_at |-> loc.existing.installed_at]

\* version::current_tag(..)?, the status line, and the validator refresh
\* with state::save_atomic(&state_path, &updated_state)?
CSave ==
  /\ cpc = "finish"
  /\ CurrentTag(binExists, bin) # NoTag
  /\ cloc.existing.exists
  /\ ValidatorsChanged(cloc)
  /\ state' = UpdatedState(cloc)
  /\ cloc' = [cloc EXCEPT !.wrote = TRUE]
  /\ cpc' = "done"
  /\ UNCHANGED <<fnVars, lockVars, fsVars, stateTmp, remVars, updVars>>

\* nothing to refresh: no current tag, no state document, or equal validators
CNoSave ==
  /\ cpc = "finish"
  /\ ~(/\ CurrentTag(binExists, bin) # NoTag
       /\ cloc.existing.exists
       /\ ValidatorsChanged(cloc))
  /\ cpc' = "done"
  /\ UNCHANGED <<fnVars, lockVars, fsVars, stVars, remVars, updVars, cloc>>

\* an error of load, fetch_latest, current_tag or save_atomic is returned
CIoError ==
  /\ cpc \in {"load", "fetch", "finish"}
  /\ cloc' = [cloc EXCEPT !.err = "io"]
  /\ cpc' = "done"
  /\ UNCHANGED <<fnVars, lockVars, fsVars, stVars, remVars, updVars>>

CReturn ==
  /\ cpc = "done"
  /\ cpc' = "idle"
  /\ cloc' = InitLoc
  /\ UNCHANGED <<fnVars, lockVars, fsVars, stVars, remVars, updVars>>

\* github::fetch_latest() answered by any server: 304 or a release, with
\* or without each validator header, the Last-Modified text in either format
ResponseEtags == {NoEtag, 1, 2}
ResponseLastModified ==
  {NoLastModified, HttpDate(1), TimestampToString(1), TimestampToString(2)}

CFetchAny ==
  /\ cpc = "fetch"
  /\ \E modified \in BOOLEAN, t \in Tags, etag \in ResponseEtags,
        lm \in ResponseLastModified :
       cloc' = [cloc EXCEPT
                  !.release = IF modified
                                THEN [some |-> TRUE, tag |-> t, execs |-> {ExeA}]
                                ELSE NoRelease,
                  !.was_modified = modified,
                  !.etag = etag,
                  !.lm = lm]
  /\ cpc' = "finish"
  /\ UNCHANGED <<fnVars, lockVars, fsVars, stVars, remVars, updVars>>

(***************************************************************************)
(* Spec: update and check runs of one app, one at a time                   *)
(***************************************************************************)
Next ==
  \/ Publish
  \/ UStart \/ UForceUnlock \/ UAcquireCreate \/ UAcquireError \/ UTryLock
  \/ ULoad \/ UFetch \/ UUpToDate \/ UNoRelease \/ UUpdating
  \/ USelectAsset \/ UNoAsset \/ UDownload \/ UVerify
  \/ UMakeStaging \/ UCopy \/ UUnpack \/ URemoveArchive \/ UFsyncTree
  \/ UMkReleases \/ UAtomicMove \/ UMoveSync \/ UMkBin
  \/ UDiscover \/ USweep \/ ULinkRemoveTemp \/ ULinkSymlink \/ ULinkRename \/ UFsyncBin
  \/ URestart \/ UPrune \/ USaveTmp \/ USaveSync \/ USavePersist \/ USaveDirSync
  \/ UEnsure \/ UIoError \/ UDropUnlock \/ UDropRemove \/ UReturn
  \/ CStart \/ CLoad \/ CFetch \/ CSave \/ CNoSave \/ CIoError \/ CReturn

Spec == Init /\ [][Next]_vars

(***************************************************************************)
(* SpecLock: processes that acquire the lock of one (app, state directory) *)
(* and later drop the guard. Nobody calls lock::unlock.                    *)
(***************************************************************************)
pipelineVars == <<fsVars, stVars, remVars, updVars, chkVars, fnVars>>

LFileCreate == \E p \in Procs : FileCreate(p) /\ UNCHANGED pipelineVars
LAcquireIoError == \E p \in Procs : AcquireIoError(p) /\ UNCHANGED pipelineVars
LTryLockOk == \E p \in Procs : TryLockOk(p) /\ UNCHANGED pipelineVars
LAcquireBusy == \E p \in Procs : AcquireBusy(p) /\ UNCHANGED pipelineVars
LDropUnlock == \E p \in Procs : DropUnlock(p) /\ UNCHANGED pipelineVars
LDropRemove == \E p \in Procs : DropRemove(p) /\ UNCHANGED pipelineVars
LLockRetry == \E p \in Procs : LockRetry(p) /\ UNCHANGED pipelineVars

NextLock ==
  \/ LFileCreate \/ LAcquireIoError \/ LTryLockOk \/ LAcquireBusy
  \/ LDropUnlock \/ LDropRemove \/ LLockRetry

SpecLock == Init /\ [][NextLock]_vars

(***************************************************************************)
(* SpecUnlock: the same processes, and the `unlock` command run at any     *)
(* moment. `work` keeps what the last unlock call found and returned.      *)
(***************************************************************************)
\* handle_unlock: lock::unlock(app, Some(state_directory))
LUnlock ==
  /\ Unlock
  /\ call' = [fn |-> "unlock"]
  /\ work' = [done |-> TRUE, ret |-> "ok",
              existed |-> lockPath # 0,
              held |-> \E q \in Procs : HoldsGuard(q)]
  /\ UNCHANGED <<fsVars, stVars, remVars, updVars, chkVars>>

\* remove_file fails on a file that exists: Err(LockError::Io)
LUnlockIoError ==
  /\ lockPath # 0
  /\ call' = [fn |-> "unlock"]
  /\ work' = [done |-> TRUE, ret |-> "io", existed |-> TRUE,
              held |-> \E q \in Procs : HoldsGuard(q)]
  /\ UNCHANGED <<lockVars, fsVars, stVars, remVars, updVars, chkVars>>

NextUnlock == NextLock \/ LUnlock \/ LUnlockIoError

SpecUnlock == Init /\ [][NextUnlock]_vars

(***************************************************************************)
(* cli.rs: is_up_to_date called on every combination of its arguments      *)
(***************************************************************************)
OptTags == Tags \cup {NoTag}
OptReleases == {NoRelease} \cup {[some |-> TRUE, tag |-> t, execs |-> {}] : t \in Tags}
OptStates ==
  {NoState} \cup {[exists |-> TRUE, latest_tag |-> t, etag |-> 1,
                   last_modified |-> 1, installed_at |-> 1] : t \in Tags}

InitIsUpToDate ==
  /\ FreshLayout
  /\ \E c \in OptTags, r \in OptReleases, e \in OptStates, w \in BOOLEAN :
       call = [fn |-> "is_up_to_date", current_tag |-> c, release_opt |-> r,
               existing_state |-> e, was_modified |-> w]
  /\ work = NoWork

CallIsUpToDate ==
  /\ call.fn = "is_up_to_date"
  /\ ~work.done
  /\ work' = [done |-> TRUE,
              ret |-> IsUpToDate(call.current_tag, call.release_opt,
                                 call.existing_state, call.was_modified)]
  /\ UNCHANGED <<call, lockVars, fsVars, stVars, remVars, updVars, chkVars>>

NextIsUpToDate == CallIsUpToDate

SpecIsUpToDate == InitIsUpToDate /\ [][NextIsUpToDate]_vars

(***************************************************************************)
(* extract.rs: unpack_with_limits called on an archive file                *)
(***************************************************************************)
MaxEntries == 3

\* A path is a sequence of components; "/" as first component is the root
\* of an absolute path and ".." is Component::ParentDir.
Dest == <<"D">>
\* the archive file, where install_release copies it: staging_dir.join(asset_name)
ArchiveCopy == <<"D", "asset">>

IsAbsolute(path) == path # <<>> /\ path[1] = "/"
HasParentDir(path) == \E i \in 1..Len(path) : path[i] = ".."

\* a validate_path that accepts every path
ValidatePathAlwaysOk(path) == TRUE

\* validate_path(path) is Ok
ValidatePathOk(path) == ~IsAbsolute(path) /\ ~HasParentDir(path)

\* zip's ZipFile::enclosed_name is Some: the name is not absolute and
\* does not climb above the directory it starts in
RECURSIVE ClimbsOut(_, _)
ClimbsOut(path, depth) ==
  IF path = <<>> THEN FALSE
  ELSE IF Head(path) = ".."
    THEN depth = 0 \/ ClimbsOut(Tail(path), depth - 1)
    ELSE ClimbsOut(Tail(path), depth + 1)
EnclosedNameSome(path) == ~IsAbsolute(path) /\ ~ClimbsOut(path, 0)

\* the file the kernel reaches for dest_dir.join(path): an absolute path
\* replaces dest_dir, and ".." steps to the parent
RECURSIVE Resolve(_, _)
Resolve(base, path) ==
  IF path = <<>> THEN base
  ELSE IF Head(path) = ".."
    THEN Resolve(IF base = <<>> THEN base ELSE SubSeq(base, 1, Len(base) - 1),
                 Tail(path))
    ELSE Resolve(Append(base, Head(path)), Tail(path))
Join(dir, path) == IF IsAbsolute(path) THEN Resolve(<<>>, Tail(path))
                                       ELSE Resolve(dir, path)

IsPrefix(a, b) == Len(a) <= Len(b) /\ SubSeq(b, 1, Len(a)) = a
Inside(dir, path) == IsPrefix(dir, path)
Parent(path) == SubSeq(path, 1, Len(path) - 1)
Prefixes(path) == {SubSeq(path, 1, n) : n \in 1..Len(path)}

\* fs::create_dir_all(path): fails when a component exists as a file
CreateDirAllOk(tree, path) ==
  \A q \in Prefixes(path) : q \in DOMAIN tree => tree[q] = "dir"
CreateDirAll(tree, path) ==
  [q \in (DOMAIN tree) \cup Prefixes(path) |->
     IF q \in DOMAIN tree THEN tree[q] ELSE "dir"]

\* File::create(path): fails on a directory
FileCreateOk(tree, path) == path \in DOMAIN tree => tree[path] = "file"

\* Entries an archive may carry. size is the declared (uncompressed) size,
\* csize the compressed size (zip).
DirEntry(path) == [path |-> path, kind |-> "dir", size |-> 0, csize |-> 0]
FileEntry(path, size, csize) ==
  [path |-> path, kind |-> "file", size |-> size, csize |-> csize]
EntrySet ==
  { DirEntry(<<"R">>), DirEntry(<<"R", "R">>), DirEntry(<<"S">>),
    FileEntry(<<"R", "f">>, 1, 1), FileEntry(<<"R", "f">>, 3, 1),
    FileEntry(<<"R", "f">>, 5, 2), FileEntry(<<"R", "R">>, 1, 1),
    FileEntry(<<"g">>, 1, 1),
    FileEntry(<<"..", "e">>, 1, 1), FileEntry(<<"/", "e">>, 1, 1),
    [path |-> <<"R", "l">>, kind |-> "symlink", size |-> 0, csize |-> 0],
    [path |-> <<"R", "p">>, kind |-> "fifo", size |-> 0, csize |-> 0] }

ArchiveFiles == UNION {[1..n -> EntrySet] : n \in 0..MaxEntries}

\* The ExtractionLimits the function is called with.
LimitSet ==
  { [max_file_count |-> 3, max_individual_file_bytes |-> 5,
     max_decompression_ratio |-> 2, max_total_extracted_bytes |-> 8],
    [max_file_count |-> 1, max_individual_file_bytes |-> 5,
     max_decompression_ratio |-> 3, max_total_extracted_bytes |-> 8],
    [max_file_count |-> 3, max_individual_file_bytes |-> 3,
     max_decompression_ratio |-> 3, max_total_extracted_bytes |-> 8],
    [max_file_count |-> 3, max_individual_file_bytes |-> 5,
     max_decompression_ratio |-> 3, max_total_extracted_bytes |-> 5] }

\* The checks of a regular-file entry against the limits, in program order;
\* the first that fails, "ok" when none does. The ratio is an integer
\* division and is tested for zip only, when compressed_size > 0.
LimitCheck(entry, limits, format, file_count, total_bytes) ==
  IF file_count >= limits.max_file_count THEN "file_count"
  ELSE IF entry.size > limits.max_individual_file_bytes THEN "individual"
  ELSE IF /\ format = "zip"
          /\ entry.csize > 0
          /\ (entry.size \div entry.csize) > limits.max_decompression_ratio
    THEN "ratio"
  ELSE IF total_bytes + entry.size > limits.max_total_extracted_bytes THEN "total"
  ELSE "ok"

\* the entry's path is accepted: enclosed_name (zip) and validate_path
EntryPathOk(format, path) ==
  /\ format = "zip" => EnclosedNameSome(path)
  /\ ValidatePathOk(path)

DestTree(src_in_dest) ==
  [q \in {Dest} \cup (IF src_in_dest THEN {ArchiveCopy} ELSE {}) |->
     IF q = Dest THEN "dir" ELSE "file"]

InitUnpack ==
  /\ FreshLayout
  /\ \E format \in {"zip", "tar"}, archive \in ArchiveFiles,
        limits \in LimitSet, src_in_dest \in BOOLEAN :
       /\ call = [fn |-> "unpack", format |-> format, archive |-> archive,
                  limits |-> limits, src_in_dest |-> src_in_dest]
       /\ work = [done |-> FALSE, i |-> 1, tree |-> DestTree(src_in_dest),
                  total_bytes |-> 0, file_count |-> 0, ret |-> "", check |-> "",
                  stripped |-> FALSE]

Fail(kind) == work' = [work EXCEPT !.done = TRUE, !.ret = kind]

\* one iteration of the loop over the entries (unpack_zip and unpack_tar)
UnpackEntry ==
  /\ call.fn = "unpack" /\ ~work.done
  /\ work.i <= Len(call.archive)
  /\ LET entry == call.archive[work.i]
         dest_path == Join(Dest, entry.path)
         check == LimitCheck(entry, call.limits, call.format,
                             work.file_count, work.total_bytes)
     IN IF ~EntryPathOk(call.format, entry.path) THEN Fail("PathValidation")
        ELSE IF entry.kind = "dir"
          THEN IF CreateDirAllOk(work.tree, dest_path)
                 THEN work' = [work EXCEPT !.tree = CreateDirAll(work.tree, dest_path),
                                           !.i = work.i + 1]
                 ELSE Fail("Io")
        ELSE IF entry.kind = "symlink" THEN Fail("PathValidation")
        ELSE IF entry.kind = "file"
          THEN IF check # "ok"
                 THEN work' = [work EXCEPT !.done = TRUE, !.ret = "LimitExceeded",
                                           !.check = check]
               ELSE IF /\ CreateDirAllOk(work.tree, Parent(dest_path))
                       /\ FileCreateOk(work.tree, dest_path)
                 THEN work' =
                        [work EXCEPT
                           !.tree = [q \in DOMAIN CreateDirAll(work.tree, Parent(dest_path))
                                            \cup {dest_path} |->
                                       IF q = dest_path THEN "file"
                                       ELSE CreateDirAll(work.tree, Parent(dest_path))[q]],
                           !.total_bytes = work.total_bytes + entry.size,
                           !.file_count = work.file_count + 1,
                           !.i = work.i + 1]
               ELSE Fail("Io")
        ELSE Fail("PathValidation")
  /\ UNCHANGED <<call, lockVars, fsVars, stVars, remVars, updVars, chkVars>>

\* the entries of a directory (fs::read_dir)
Children(tree, dir) ==
  {q \in DOMAIN tree : Len(q) = Len(dir) + 1 /\ IsPrefix(dir, q)}

\* a rename of each child onto the path it already has
MovedPathUnmoved(q, root, kids) == q

\* where a path is after the children `kids` of `root` were renamed to
\* dest_dir.join(file_name)
MovedPath(q, root, kids) ==
  IF \E k \in kids : IsPrefix(k, q)
    THEN Dest \o SubSeq(q, Len(root) + 1, Len(q))
    ELSE q
MoveUp(tree, root, kids) ==
  [n \in {MovedPath(q, root, kids) : q \in DOMAIN tree} |->
     tree[CHOOSE q \in DOMAIN tree : MovedPath(q, root, kids) = n]]

\* detect_and_strip_single_root(dest_dir), then Ok(()). A child that has
\* the name of the root cannot be renamed onto the root (a directory that
\* is not empty); the children renamed before it are in their new place.
StripSingleRoot ==
  /\ call.fn = "unpack" /\ ~work.done
  /\ work.i > Len(call.archive)
  /\ LET entries == Children(work.tree, Dest) IN
       IF Cardinality(entries) # 1
         THEN work' = [work EXCEPT !.done = TRUE, !.ret = "Ok"]
       ELSE LET root == CHOOSE q \in entries : TRUE
                kids == Children(work.tree, root)
                clash == {k \in kids : k[Len(k)] = root[Len(root)]}
            IN IF work.tree[root] # "dir"
                 THEN work' = [work EXCEPT !.done = TRUE, !.ret = "Ok"]
               ELSE IF clash = {}
                 THEN work' = [work EXCEPT
                                 !.tree = [n \in DOMAIN MoveUp(work.tree, root, kids)
                                                   \ {root} |->
                                             MoveUp(work.tree, root, kids)[n]],
                                 !.done = TRUE, !.ret = "Ok", !.stripped = TRUE]
               ELSE \E moved \in SUBSET (kids \ clash) :
                      work' = [work EXCEPT !.tree = MoveUp(work.tree, root, moved),
                                           !.done = TRUE, !.ret = "Io"]
  /\ UNCHANGED <<call, lockVars, fsVars, stVars, remVars, updVars, chkVars>>

NextUnpack == UnpackEntry \/ StripSingleRoot

SpecUnpack == InitUnpack /\ [][NextUnpack]_vars

(***************************************************************************)
(* SpecCheck: check runs against any server, from any installation: with   *)
(* or without a current symlink, with or without a state document.         *)
(***************************************************************************)
InstalledRelease(t) ==
  [tag |-> t, archive |-> FALSE, unpacked |-> TRUE, synced |-> TRUE,
   execs |-> {ExeA}, mtime |-> 1]

CheckStates ==
  {NoState} \cup
  {[exists |-> TRUE, latest_tag |-> t, etag |-> e, last_modified |-> m,
    installed_at |-> 1] : t \in Tags, e \in {1, 2}, m \in {1, 2}}

InitCheck ==
  /\ lockPath = 0
  /\ flock = [i \in Inodes |-> 0]
  /\ fd = [p \in Procs |-> 0]
  /\ lpc = [p \in Procs |-> "idle"]
  /\ staging = <<>>
  /\ \E t \in Tags \cup {NoTag} :
       IF t = NoTag
         THEN /\ releases = <<>>
              /\ \/ binExists = FALSE /\ bin = <<>>
                 \/ binExists = TRUE /\ bin = [n \in {"x"} |-> ForeignLink]
         ELSE /\ releases = [x \in {t} |-> InstalledRelease(t)]
              /\ binExists = TRUE
              /\ bin = [n \in {"a"} |-> ManagedLink(t, ExeA)]
  /\ clock = 2
  /\ state \in CheckStates
  /\ stateTmp = FALSE
  /\ remote = NoRemote
  /\ published = 0
  /\ upc = "idle"
  /\ uloc = InitLoc
  /\ uResult = "none"
  /\ trace = <<>>
  /\ pre = NoSnapshot
  /\ runs = 0
  /\ cpc = "idle"
  /\ cloc = InitLoc
  /\ call = NoCall
  /\ work = NoWork

NextCheck ==
  \/ CStart \/ CLoad \/ CFetchAny \/ CSave \/ CNoSave \/ CIoError \/ CReturn

SpecCheck == InitCheck /\ [][NextCheck]_vars

(***************************************************************************)
(* SpecRace: check takes no lock, so a check run and an update run of the  *)
(* same app may overlap. The runs start from an installation.              *)
(***************************************************************************)
InitRace ==
  /\ lockPath = 0
  /\ flock = [i \in Inodes |-> 0]
  /\ fd = [p \in Procs |-> 0]
  /\ lpc = [p \in Procs |-> "idle"]
  /\ staging = <<>>
  /\ \E t \in Tags :
       /\ releases = [x \in {t} |-> InstalledRelease(t)]
       /\ bin = [n \in {"a"} |-> ManagedLink(t, ExeA)]
       /\ state = [exists |-> TRUE, latest_tag |-> t, etag |-> 1,
                   last_modified |-> 1, installed_at |-> 1]
       /\ remote = [some |-> TRUE, tag |-> t, execs |-> {ExeA}, val |-> 1, lm |-> 1]
  /\ binExists = TRUE
  /\ clock = 2
  /\ stateTmp = FALSE
  /\ published = 1
  /\ upc = "idle"
  /\ uloc = InitLoc
  /\ uResult = "none"
  /\ trace = <<>>
  /\ pre = NoSnapshot
  /\ runs = 0
  /\ cpc = "idle"
  /\ cloc = InitLoc
  /\ call = NoCall
  /\ work = NoWork

\* a check run starts while an update run is under way
CStartRacing ==
  /\ cpc = "idle" /\ upc # "idle"
  /\ runs < MaxRuns
  /\ runs' = runs + 1
  /\ cloc' = InitLoc
  /\ cpc' = "load"
  /\ UNCHANGED <<fnVars, lockVars, fsVars, stVars, remVars, upc, uloc, uResult, trace, pre>>

\* an update run starts while a check run is under way
UStartRacing ==
  /\ upc = "idle" /\ cpc # "idle"
  /\ runs < MaxRuns
  /\ runs' = runs + 1
  /\ pre' = Snapshot
  /\ trace' = <<>>
  /\ uloc' = InitLoc
  /\ uResult' = "none"
  /\ upc' = "force_unlock"
  /\ UNCHANGED <<fnVars, lockVars, fsVars, stVars, remVars, chkVars>>

NextRace == Next \/ CStartRacing \/ UStartRacing

SpecRace == InitRace /\ [][NextRace]_vars

\* update and check runs one at a time, from a host with a release installed
SpecInstalled == InitRace /\ [][Next]_vars

(***************************************************************************)
(* SpecStale: update and check runs one at a time, from an installation    *)
(* whose links and state document may disagree: one to three releases,    *)
(* bin/ empty or linking one of them, a state document naming one of them  *)
(* with or without the ETag the remote answers with 304.                   *)
(***************************************************************************)
InitStale ==
  /\ lockPath = 0
  /\ flock = [i \in Inodes |-> 0]
  /\ fd = [p \in Procs |-> 0]
  /\ lpc = [p \in Procs |-> "idle"]
  /\ staging = <<>>
  /\ \E S \in (SUBSET (Tags \cup {NumTags + 1})) \ {{}} :
       /\ releases = [x \in S |-> InstalledRelease(x)]
       /\ \/ bin = <<>>
          \/ bin = [n \in {"x"} |-> ForeignLink]
          \/ \E t \in S : bin = [n \in {"a"} |-> ManagedLink(t, ExeA)]
       /\ \E t \in S, e \in {0, 1} :
            state = [exists |-> TRUE, latest_tag |-> t, etag |-> e,
                     last_modified |-> 1, installed_at |-> 1]
  /\ binExists = TRUE
  /\ clock = 2
  /\ stateTmp = FALSE
  /\ \E t \in Tags :
       remote = [some |-> TRUE, tag |-> t, execs |-> {ExeA}, val |-> 1, lm |-> 1]
  /\ published = 1
  /\ upc = "idle"
  /\ uloc = InitLoc
  /\ uResult = "none"
  /\ trace = <<>>
  /\ pre = NoSnapshot
  /\ runs = 0
  /\ cpc = "idle"
  /\ cloc = InitLoc
  /\ call = NoCall
  /\ work = NoWork

SpecStale == InitStale /\ [][Next]_vars

(***************************************************************************)
(* SpecLink: fsops::link_binaries(releases/<tag>, bin) called on any bin/: *)
(* each name absent, a link into a previous release, or a link to          *)
(* somewhere else. The call has returned Ok when upc = "restart".          *)
(***************************************************************************)
OldTag == 1
NewTag == 2

\* the contents bin/ may have: any entries among the names
BinContents ==
  UNION {[names -> {"old", "foreign"}] : names \in SUBSET BinNames}

LinkOf(kind, n) ==
  IF kind = "old" THEN ManagedLink(OldTag, [dir |-> "", name |-> n])
  ELSE ForeignLink

InitLink ==
  /\ lockPath = 0
  /\ flock = [i \in Inodes |-> 0]
  /\ fd = [p \in Procs |-> 0]
  /\ lpc = [p \in Procs |-> "idle"]
  /\ staging = <<>>
  /\ \E a \in Archives :
       releases = [t \in {OldTag, NewTag} |->
                     IF t = OldTag THEN InstalledRelease(t)
                     ELSE [InstalledRelease(t) EXCEPT !.execs = a, !.mtime = 2]]
  /\ binExists = TRUE
  /\ \E c \in BinContents : bin = [n \in DOMAIN c |-> LinkOf(c[n], n)]
  /\ clock = 3
  /\ state = NoState
  /\ stateTmp = FALSE
  /\ remote = NoRemote
  /\ published = 0
  /\ upc = "discover"
  /\ uloc = [InitLoc EXCEPT !.tag = NewTag]
  /\ uResult = "none"
  /\ trace = <<>>
  /\ pre = Snapshot
  /\ runs = 1
  /\ cpc = "idle"
  /\ cloc = InitLoc
  /\ call = NoCall
  /\ work = NoWork

NextLink ==
  \/ UDiscover \/ USweep \/ ULinkRemoveTemp \/ ULinkSymlink \/ ULinkRename
  \/ UFsyncBin \/ UIoError

SpecLink == InitLink /\ [][NextLink]_vars

(***************************************************************************)
(* fsops.rs: prune_old_releases called on a releases directory             *)
(***************************************************************************)
MaxMtime == 3
\* the directories of releases_dir, each with its mtime
PruneTags == 1..(NumTags + 1)
PruneRetains == 0..(MaxRetain + 1)
\* what read_dir(releases_dir) lists: each entry a directory or not
Listings ==
  UNION {[S -> [mtime : 1..MaxMtime, dir : BOOLEAN]] : S \in SUBSET PruneTags}

\* a filter_map that keeps every entry
DirEntriesUnfiltered(listing) ==
  [t \in DOMAIN listing |-> [mtime |-> listing[t].mtime]]

\* the filter_map: entries that are not directories are dropped, the
\* others paired with their mtime
DirEntries(listing) ==
  [t \in {n \in DOMAIN listing : listing[n].dir} |-> [mtime |-> listing[t].mtime]]

\* call.rel is `entries`, the directories of the listing
InitPrune ==
  /\ FreshLayout
  /\ \E exists \in BOOLEAN, listing \in Listings,
        current_tag \in PruneTags, retain \in PruneRetains :
       /\ ~exists => listing = <<>>
       /\ call = [fn |-> "prune_old_releases", exists |-> exists,
                  listing |-> listing, rel |-> DirEntries(listing),
                  current_tag |-> current_tag, retain |-> retain]
  /\ work = [done |-> FALSE, listing |-> call.listing, rel |-> call.rel,
             deleted |-> {}, failed |-> {}]

\* the whole call: Ok of two empty lists when releases_dir does not exist;
\* otherwise every tag of to_delete is removed or reported as failed
CallPrune ==
  /\ call.fn = "prune_old_releases" /\ ~work.done
  /\ IF ~call.exists
       THEN work' = [work EXCEPT !.done = TRUE]
       ELSE LET entries == DirEntries(call.listing)
                to_delete == ToDelete(entries, call.current_tag, call.retain)
            IN \E failed \in SUBSET to_delete :
                 work' = [done |-> TRUE,
                          listing |-> [t \in (DOMAIN call.listing) \ (to_delete \ failed)
                                         |-> call.listing[t]],
                          rel |-> [t \in (DOMAIN entries) \ (to_delete \ failed)
                                     |-> entries[t]],
                          deleted |-> to_delete \ failed,
                          failed |-> failed]
  /\ UNCHANGED <<call, lockVars, fsVars, stVars, remVars, updVars, chkVars>>

NextPrune == CallPrune

SpecPrune == InitPrune /\ [][NextPrune]_vars

(***************************************************************************)
(* lock.rs: acquire with its clock. Time is counted in units of 100 ms.    *)
(* A statement takes no time and thread::sleep(delay) lasts exactly delay: *)
(* time advances only when no process has a statement of the retry loop to *)
(* run. `call` names the function; `work` holds the locals of each process *)
(* inside acquire, the time since the lock on each file was released to a  *)
(* waiter, and what acquire has just returned.                             *)
(***************************************************************************)
MaxCalls == 2
NumContenders == 2
\* the processes that call acquire
Contenders == 1..NumContenders

\* let mut delay = Duration::from_millis(100)
InitialDelay == 1
\* let max_delay = Duration::from_secs(1)
MaxDelay == 10
\* the `timeout` argument: 0 s, 200 ms, 1.6 s
Timeouts == {0, 2, 16}

NoRet == [kind |-> "none"]

InitAcquire ==
  /\ FreshLayout
  /\ call = [fn |-> "acquire"]
  /\ work = [elapsed |-> [p \in Procs |-> 0],
             delay |-> [p \in Procs |-> 0],
             left |-> [p \in Procs |-> 0],
             timeout |-> [p \in Procs |-> 0],
             tries |-> [p \in Procs |-> 0],
             calls |-> [p \in Procs |-> 0],
             since |-> [i \in Inodes |-> -1],
             ret |-> [p \in Procs |-> NoRet]]

\* a back-off that doubles without a ceiling
NextDelayUncapped(delay) == delay * 2

\* delay = (delay * 2).min(max_delay)
NextDelay(delay) == IF delay * 2 < MaxDelay THEN delay * 2 ELSE MaxDelay

\* a deadline test that is always met
DeadlineReachedAlways(p) == TRUE

\* start.elapsed() >= timeout
DeadlineReached(p) == work.elapsed[p] >= work.timeout[p]

\* the locals of acquire are gone when it returns
Locals(w, p) == [w EXCEPT !.elapsed[p] = 0, !.delay[p] = 0, !.left[p] = 0,
                          !.timeout[p] = 0, !.tries[p] = 0]

\* somebody else has the file of p open
HasWaiter(p) == \E q \in Procs : q # p /\ fd[q] = fd[p]

\* acquire(app, lock_root, timeout) up to the loop: File::create, then
\* start = Instant::now() and delay = 100 ms
TStart(p) ==
  /\ work.calls[p] < MaxCalls
  /\ \E timeout \in Timeouts :
       /\ FileCreate(p)
       /\ work' = [work EXCEPT !.elapsed[p] = 0,
                               !.delay[p] = InitialDelay,
                               !.timeout[p] = timeout,
                               !.tries[p] = 0,
                               !.calls[p] = @ + 1,
                               !.ret[p] = NoRet]
  /\ UNCHANGED <<call, fsVars, stVars, remVars, updVars, chkVars>>

\* create_dir_all or File::create fails
TAcquireIoError(p) ==
  /\ work.calls[p] < MaxCalls
  /\ AcquireIoError(p)
  /\ work' = [work EXCEPT !.calls[p] = @ + 1, !.ret[p] = [kind |-> "io"]]
  /\ UNCHANGED <<call, fsVars, stVars, remVars, updVars, chkVars>>

\* if let Ok(()) = file.try_lock() { return Ok(LockGuard{..}) }
TTryLockOk(p) ==
  /\ TryLockOk(p)
  /\ work' = [Locals(work, p) EXCEPT
                !.since[fd[p]] = -1,
                !.ret[p] = [kind |-> "guard",
                            waited |-> work.tries[p] > 0,
                            late |-> work.since[fd[p]],
                            elapsed |-> work.elapsed[p],
                            timeout |-> work.timeout[p]]]
  /\ UNCHANGED <<call, fsVars, stVars, remVars, updVars, chkVars>>

\* try_lock failed; if start.elapsed() >= timeout { return Err(Busy) }
TBusy(p) ==
  /\ DeadlineReached(p)
  /\ AcquireBusy(p)
  /\ work' = [Locals(work, p) EXCEPT
                !.ret[p] = [kind |-> "busy",
                            elapsed |-> work.elapsed[p],
                            timeout |-> work.timeout[p],
                            tries |-> work.tries[p] + 1]]
  /\ UNCHANGED <<call, fsVars, stVars, remVars, updVars, chkVars>>

\* try_lock failed before the deadline: thread::sleep(delay) begins
TSleep(p) ==
  /\ lpc[p] = "open"
  /\ flock[fd[p]] # 0
  /\ ~DeadlineReached(p)
  /\ lpc' = [lpc EXCEPT ![p] = "sleeping"]
  /\ work' = [work EXCEPT !.tries[p] = @ + 1,
                          !.left[p] = work.delay[p]]
  /\ UNCHANGED <<call, lockPath, flock, fd, fsVars, stVars, remVars, updVars, chkVars>>

\* thread::sleep(delay) returns; delay = (delay * 2).min(max_delay); the
\* loop starts over
TWake(p) ==
  /\ lpc[p] = "sleeping"
  /\ work.left[p] = 0
  /\ lpc' = [lpc EXCEPT ![p] = "open"]
  /\ work' = [work EXCEPT !.delay[p] = NextDelay(work.delay[p])]
  /\ UNCHANGED <<call, lockPath, flock, fd, fsVars, stVars, remVars, updVars, chkVars>>

\* LockGuard::drop: self.file.unlock()
TDropUnlock(p) ==
  /\ DropUnlock(p)
  /\ work' = [work EXCEPT !.since[fd[p]] = IF HasWaiter(p) THEN 0 ELSE -1,
                          !.ret[p] = NoRet]
  /\ UNCHANGED <<call, fsVars, stVars, remVars, updVars, chkVars>>

\* LockGuard::drop: fs::remove_file(&self.path)
TDropRemove(p) ==
  /\ DropRemove(p)
  /\ UNCHANGED <<fnVars, fsVars, stVars, remVars, updVars, chkVars>>

\* the caller that got an error goes on
TLockRetry(p) ==
  /\ LockRetry(p)
  /\ work' = [work EXCEPT !.ret[p] = NoRet]
  /\ UNCHANGED <<call, fsVars, stVars, remVars, updVars, chkVars>>

\* a process with a statement of acquire's loop to run
Running(p) ==
  \/ lpc[p] = "open"
  \/ lpc[p] = "sleeping" /\ work.left[p] = 0

\* 100 ms pass
Tick ==
  /\ call.fn = "acquire"
  /\ \A p \in Contenders : ~Running(p)
  /\ work' = [work EXCEPT
       !.elapsed = [p \in Procs |->
                      IF lpc[p] = "sleeping" THEN work.elapsed[p] + 1
                      ELSE work.elapsed[p]],
       !.left = [p \in Procs |->
                   IF lpc[p] = "sleeping" THEN work.left[p] - 1
                   ELSE work.left[p]],
       !.since = [i \in Inodes |->
                    IF work.since[i] >= 0 /\ work.since[i] <= MaxDelay
                      THEN work.since[i] + 1
                      ELSE work.since[i]]]
  /\ UNCHANGED <<call, lockVars, fsVars, stVars, remVars, updVars, chkVars>>

AStart == \E p \in Contenders : TStart(p)
AAcquireIoError == \E p \in Contenders : TAcquireIoError(p)
ATryLockOk == \E p \in Contenders : TTryLockOk(p)
ABusy == \E p \in Contenders : TBusy(p)
ASleep == \E p \in Contenders : TSleep(p)
AWake == \E p \in Contenders : TWake(p)
ADropUnlock == \E p \in Contenders : TDropUnlock(p)
ADropRemove == \E p \in Contenders : TDropRemove(p)
ALockRetry == \E p \in Contenders : TLockRetry(p)

NextAcquire ==
  \/ AStart \/ AAcquireIoError \/ ATryLockOk \/ ABusy \/ ASleep \/ AWake
  \/ ADropUnlock \/ ADropRemove \/ ALockRetry \/ Tick

SpecAcquire == InitAcquire /\ [][NextAcquire]_vars

\* a thread inside acquire runs its next statement, and time passes; the
\* holder of a guard may keep it for ever
LoopStep(p) == TTryLockOk(p) \/ TBusy(p) \/ TSleep(p) \/ TWake(p)

SpecAcquireLive ==
  /\ SpecAcquire
  /\ WF_vars(Tick)
  /\ \A p \in Contenders : WF_vars(LoopStep(p))

(***************************************************************************)
(* state.rs: save_atomic and load called on one path. `call` holds the     *)
(* arguments; `work` holds the file at the path as programs see it, the    *)
(* temp file, the position inside save_atomic, the statements run so far   *)
(* and the results. A crash leaves at the path what had reached the disk.  *)
(***************************************************************************)
MaxStrLen == 2

\* characters of a tag or an etag: a plain one, the quote, the backslash
Chars == {"a", "\"", "\\"}

RECURSIVE StringsUpTo(_)
StringsUpTo(n) ==
  IF n = 0 THEN {<<>>}
  ELSE LET shorter == StringsUpTo(n - 1) IN
         shorter \cup {Append(x, c) : x \in shorter, c \in Chars}

\* serde_json string escaping: \" for the quote, \\ for the backslash
RECURSIVE Escape(_)
Escape(str) ==
  IF str = <<>> THEN <<>>
  ELSE LET c == Head(str) IN
         (IF c = "\"" \/ c = "\\" THEN <<"\\", c>> ELSE <<c>>) \o Escape(Tail(str))

\* an escaped text is well formed when no quote is bare and every
\* backslash is followed by a character
RECURSIVE WellEscaped(_)
WellEscaped(raw) ==
  IF raw = <<>> THEN TRUE
  ELSE IF Head(raw) = "\\" THEN Len(raw) >= 2 /\ WellEscaped(Tail(Tail(raw)))
  ELSE Head(raw) # "\"" /\ WellEscaped(Tail(raw))

RECURSIVE Unescape(_)
Unescape(raw) ==
  IF raw = <<>> THEN <<>>
  ELSE IF Head(raw) = "\\" THEN <<raw[2]>> \o Unescape(Tail(Tail(raw)))
  ELSE <<Head(raw)>> \o Unescape(Tail(raw))

\* jiff::Timestamp: seconds since the epoch and nanoseconds
Timestamp(sec, nano) == [sec |-> sec, nano |-> nano]

RECURSIVE Digits(_, _)
\* the n decimal digits of v, most significant first
Digits(v, n) == IF n = 0 THEN <<>> ELSE Append(Digits(v \div 10, n - 1), v % 10)

RECURSIVE TrimZeros(_)
TrimZeros(ds) ==
  IF ds # <<>> /\ ds[Len(ds)] = 0 THEN TrimZeros(SubSeq(ds, 1, Len(ds) - 1)) ELSE ds

RECURSIVE FracValue(_, _)
\* the nanoseconds a fraction of at most n digits stands for
FracValue(ds, n) ==
  IF n = 0 THEN 0
  ELSE IF ds = <<>> THEN 0
  ELSE Head(ds) * (10 ^ (n - 1)) + FracValue(Tail(ds), n - 1)

\* Display of a Timestamp (RFC 3339, UTC): the day, the second of the day
\* and the fraction without its trailing zeros
Rfc3339(t) == [day |-> t.sec \div 86400, tod |-> t.sec % 86400,
               frac |-> TrimZeros(Digits(t.nano, 9))]

\* str::parse::<Timestamp>
FromRfc3339(text) == Timestamp(text.day * 86400 + text.tod, FracValue(text.frac, 9))

StateTags == StringsUpTo(MaxStrLen)
StateEtags == {<<>>, <<"a">>, <<"\"">>, <<"\\", "a">>}
StateTimes == {Timestamp(0, 0), Timestamp(1234567890, 120000000),
               Timestamp(0 - 1, 999999999)}
InstallTimes == {Timestamp(86400, 1), Timestamp(86399, 500000000)}

\* pub struct State { latest_tag, etag, last_modified, installed_at }
States ==
  [latest_tag : StateTags, etag : StateEtags,
   last_modified : StateTimes, installed_at : InstallTimes]

StringValue(raw) == [type |-> "string", raw |-> raw, text |-> Rfc3339(Timestamp(0, 0))]
TimeValue(text) == [type |-> "time", raw |-> <<>>, text |-> text]
NumberValue == [type |-> "number", raw |-> <<>>, text |-> Rfc3339(Timestamp(0, 0))]
Member(name, value) == [name |-> name, value |-> value]

NoFile == [kind |-> "absent"]
\* a text that is not JSON
InvalidJson == [kind |-> "invalid"]
\* a document cut short
PartialJson == [kind |-> "partial"]
Object(members) == [kind |-> "object", members |-> members]

\* a serialization that writes the strings as they are
ToJsonUnescaped(st) ==
  Object(<<Member("latest_tag", StringValue(st.latest_tag)),
           Member("etag", StringValue(st.etag)),
           Member("last_modified", TimeValue(Rfc3339(st.last_modified))),
           Member("installed_at", TimeValue(Rfc3339(st.installed_at)))>>)

\* serde_json::to_string_pretty(state)
ToJson(st) ==
  Object(<<Member("latest_tag", StringValue(Escape(st.latest_tag))),
           Member("etag", StringValue(Escape(st.etag))),
           Member("last_modified", TimeValue(Rfc3339(st.last_modified))),
           Member("installed_at", TimeValue(Rfc3339(st.installed_at)))>>)

MembersNamed(doc, name) ==
  {i \in 1..Len(doc.members) : doc.members[i].name = name}

Field(doc, name) == doc.members[CHOOSE i \in MembersNamed(doc, name) : TRUE].value

\* the derived Deserialize of State: every field once, the strings well
\* formed, the timestamps RFC 3339 texts; other members are ignored
Parses(doc) ==
  /\ doc.kind = "object"
  /\ \A name \in {"latest_tag", "etag", "last_modified", "installed_at"} :
       Cardinality(MembersNamed(doc, name)) = 1
  /\ \A name \in {"latest_tag", "etag"} :
       Field(doc, name).type = "string" /\ WellEscaped(Field(doc, name).raw)
  /\ \A name \in {"last_modified", "installed_at"} :
       Field(doc, name).type = "time"

\* serde_json::from_str::<State>(&contents)
FromJson(doc) ==
  [latest_tag |-> Unescape(Field(doc, "latest_tag").raw),
   etag |-> Unescape(Field(doc, "etag").raw),
   last_modified |-> FromRfc3339(Field(doc, "last_modified").text),
   installed_at |-> FromRfc3339(Field(doc, "installed_at").text)]

\* pub fn load(path): Ok(None) when the path does not exist, an error when
\* the contents do not parse
Load(file) ==
  IF file.kind = "absent" THEN [kind |-> "none"]
  ELSE IF Parses(file) THEN [kind |-> "some", state |-> FromJson(file)]
  ELSE [kind |-> "error"]

\* the path argument: without a parent ("/"), a bare file name whose
\* parent is the empty path, or a file inside a directory
PathKinds == {"no_parent", "bare", "nested"}

\* what may be at the path before the call
PreviousState ==
  [latest_tag |-> <<"a">>, etag |-> <<"a", "a">>,
   last_modified |-> Timestamp(5, 0), installed_at |-> Timestamp(6, 0)]

\* files that are not a state document: no JSON, another structure, a
\* member of the wrong type
BadFiles ==
  {InvalidJson,
   Object(<<Member("wrong", StringValue(<<"a">>))>>),
   Object(<<Member("latest_tag", StringValue(<<"a">>)), Member("etag", NumberValue),
            Member("last_modified", TimeValue(Rfc3339(Timestamp(5, 0)))),
            Member("installed_at", TimeValue(Rfc3339(Timestamp(6, 0))))>>)}

InitialFiles == {NoFile, ToJson(PreviousState)} \cup BadFiles

NoTemp == [exists |-> FALSE, data |-> NoFile, synced |-> FALSE]

InitState ==
  /\ FreshLayout
  /\ \E path \in PathKinds, st \in States, file \in InitialFiles :
       /\ (path = "no_parent") => file = NoFile
       /\ call = [fn |-> "save_atomic", path |-> path, state |-> st, before |-> file]
       /\ work = [pc |-> "start", dest |-> file, disk |-> {file}, tmp |-> NoTemp,
                  log |-> <<>>, save |-> "none", crashed |-> FALSE,
                  first |-> [kind |-> "unread"], loaded |-> [kind |-> "unread"]]

InState == call.fn = "save_atomic"
Frame == UNCHANGED <<call, lockVars, fsVars, stVars, remVars, updVars, chkVars>>
Step(pc, e) == [work EXCEPT !.pc = pc, !.log = Append(work.log, e)]

\* load(path) before anything is saved
SLoadFirst ==
  /\ InState /\ work.pc = "start" /\ call.path # "no_parent"
  /\ work.first.kind = "unread"
  /\ work' = [work EXCEPT !.first = Load(work.dest)]
  /\ Frame

\* let parent = path.parent().ok_or_else(..)?; fs::create_dir_all(parent)?
SCreateDir ==
  /\ InState /\ work.pc = "start"
  /\ IF call.path = "no_parent"
       THEN work' = [work EXCEPT !.pc = "returned", !.save = "err"]
       ELSE work' = Step("tmp", "create_dir_all")
  /\ Frame

\* NamedUtf8TempFile::new_in(parent)?
STempCreate ==
  /\ InState /\ work.pc = "tmp"
  /\ work' = [Step("write", "tmp_create") EXCEPT
                !.tmp = [exists |-> TRUE, data |-> PartialJson, synced |-> FALSE]]
  /\ Frame

\* serde_json::to_string_pretty(state)?; temp_file.write_all(json.as_bytes())?
SWrite ==
  /\ InState /\ work.pc = "write"
  /\ work' = [Step("sync", "write") EXCEPT !.tmp.data = ToJson(call.state)]
  /\ Frame

\* a save that renames without the fsync of the temp file
SSyncSkipped ==
  /\ InState /\ work.pc = "sync"
  /\ work' = [work EXCEPT !.pc = "persist"]
  /\ Frame

\* temp_file.as_file().sync_all()?
SSync ==
  /\ InState /\ work.pc = "sync"
  /\ work' = [Step("persist", "fsync") EXCEPT !.tmp.synced = TRUE]
  /\ Frame

\* what a crash may leave at the path once the temp file is renamed over
\* it: its data if they were synced, anything short of them if not
Durable(tmp) == IF tmp.synced THEN {tmp.data} ELSE {tmp.data, PartialJson}

\* temp_file.persist(path)?: rename over the destination
SPersist ==
  /\ InState /\ work.pc = "persist"
  /\ work' = [Step("dirsync", "rename") EXCEPT
                !.dest = work.tmp.data,
                !.disk = work.disk \cup Durable(work.tmp),
                !.tmp = NoTemp]
  /\ Frame

\* fs::File::open(parent)?.sync_all()?; Ok(()). The empty parent of a bare
\* file name cannot be opened.
SDirSync ==
  /\ InState /\ work.pc = "dirsync"
  /\ IF call.path = "bare"
       THEN work' = [work EXCEPT !.pc = "returned", !.save = "err"]
       ELSE work' = [Step("returned", "fsync_dir") EXCEPT
                       !.disk = {work.dest}, !.save = "ok"]
  /\ Frame

\* any statement with `?` fails: the error is returned and the temp file,
\* if there is one, is removed as it is dropped; a write may have written
\* part of the text
SError ==
  /\ InState /\ work.pc \in {"start", "tmp", "write", "sync", "persist", "dirsync"}
  /\ call.path # "no_parent"
  /\ work' = [work EXCEPT !.pc = "returned", !.save = "err", !.tmp = NoTemp]
  /\ Frame

\* the machine stops inside save_atomic; after the restart the path holds
\* one of the contents that may have reached the disk
SCrash ==
  /\ InState /\ work.pc \in {"tmp", "write", "sync", "persist", "dirsync"}
  /\ \E content \in work.disk :
       work' = [work EXCEPT !.pc = "returned", !.save = "crash", !.crashed = TRUE,
                            !.dest = content, !.disk = {content}, !.tmp = NoTemp]
  /\ Frame

\* load(path) after save_atomic
SLoad ==
  /\ InState /\ work.pc = "returned"
  /\ work' = [work EXCEPT !.pc = "done",
                          !.loaded = IF call.path = "no_parent"
                                       THEN [kind |-> "error"]
                                       ELSE Load(work.dest)]
  /\ Frame

NextState ==
  \/ SLoadFirst \/ SCreateDir \/ STempCreate \/ SWrite \/ SSync \/ SPersist
  \/ SDirSync \/ SError \/ SCrash \/ SLoad

SpecState == InitState /\ [][NextState]_vars

(***************************************************************************)
(* version.rs: current_tag called on any bin/. A path is the sequence of   *)
(* the texts between its slashes: "../releases/v1" is <<"..", "releases",  *)
(* "v1">>, "/x" is <<"", "x">>, "x//y/" is <<"x", "", "y", "">>. `call`     *)
(* holds bin_dir and what it contains, `work` the returned Option: <<>> is *)
(* None and <<t>> is Some(t).                                              *)
(***************************************************************************)
MaxSegments == 3
Segments == {"", ".", "..", "releases", "v1"}

RECURSIVE PathsUpTo(_)
PathsUpTo(n) ==
  IF n = 0 THEN {<<>>}
  ELSE LET shorter == PathsUpTo(n - 1) IN
         shorter \cup {Append(x, s) : x \in shorter, s \in Segments}

\* what read_link may return: any path but the empty string
Targets == PathsUpTo(MaxSegments) \ {<<>>, <<"">>}

\* prefix.join(app).join("bin"), for the prefixes /opt and /releases
BinDirs == {<<"", "opt", "app", "bin">>, <<"", "releases", "app", "bin">>}
LinkNames == {"a.tmp", "b"}
\* one entry of bin/: a symlink with its target, or something else
DirItems ==
  {[symlink |-> FALSE, target |-> <<>>]}
    \cup {[symlink |-> TRUE, target |-> t] : t \in Targets}
BinListings == UNION {[S -> DirItems] : S \in SUBSET LinkNames}

\* Utf8Path::is_relative: the path does not begin with a slash
IsRelative(path) == path[1] # ""

\* Utf8Path::join of a relative path: base, a slash, the path
JoinPath(base, path) == base \o path

\* Utf8Path::components: the root, then the names; an empty name (a doubled
\* or trailing slash) and a "." are skipped, but for a leading "."
IsName(s) == s \notin {"", "."}
Components(path) ==
  LET head == IF path[1] = "" THEN <<"/">>
              ELSE IF path[1] = "." THEN <<".">> ELSE <<>>
  IN head \o SelectSeq(path, IsName)

\* the component after the last `releases`
ExtractTagFromPathLast(path) ==
  LET components == Components(path)
      found == {i \in 1..Len(components) : components[i] = "releases"}
  IN IF found = {} THEN <<>>
     ELSE LET i == CHOOSE j \in found : \A k \in found : k <= j
          IN IF i + 1 <= Len(components) THEN <<components[i + 1]>> ELSE <<>>

\* extract_tag_from_path: find the first component equal to `releases`,
\* then get the component after it
ExtractTagFromPath(path) ==
  LET components == Components(path)
      found == {i \in 1..Len(components) : components[i] = "releases"}
  IN IF found = {} THEN <<>>
     ELSE LET i == CHOOSE j \in found : \A k \in found : j <= k
          IN IF i + 1 <= Len(components) THEN <<components[i + 1]>> ELSE <<>>

\* the closure of the map: None for an entry that is not a symlink or whose
\* target has no tag, Some(tag) otherwise
TagOfEntry(bin_dir, item) ==
  IF ~item.symlink THEN <<>>
  ELSE LET target_path == IF IsRelative(item.target)
                            THEN JoinPath(bin_dir, item.target)
                            ELSE item.target
       IN ExtractTagFromPath(target_path)

\* current_tag
CurrentTagIn(bin_dir, is_dir, listing) ==
  IF ~is_dir THEN <<>>
  ELSE LET symlinks == {n \in DOMAIN listing : TagOfEntry(bin_dir, listing[n]) # <<>>}
       IN IF symlinks = {} THEN <<>>
          ELSE LET last == CHOOSE n \in symlinks :
                             \A m \in symlinks : NameRank(m) <= NameRank(n)
               IN TagOfEntry(bin_dir, listing[last])

InitCurrentTag ==
  /\ FreshLayout
  /\ \E bin_dir \in BinDirs, is_dir \in BOOLEAN, listing \in BinListings :
       /\ ~is_dir => listing = <<>>
       /\ call = [fn |-> "current_tag", bin_dir |-> bin_dir,
                  is_dir |-> is_dir, listing |-> listing]
  /\ work = [done |-> FALSE, result |-> <<>>]

CallCurrentTag ==
  /\ call.fn = "current_tag" /\ ~work.done
  /\ work' = [done |-> TRUE,
              result |-> CurrentTagIn(call.bin_dir, call.is_dir, call.listing)]
  /\ UNCHANGED <<call, lockVars, fsVars, stVars, remVars, updVars, chkVars>>

NextCurrentTag == CallCurrentTag

SpecCurrentTag == InitCurrentTag /\ [][NextCurrentTag]_vars

(***************************************************************************)
(* Properties                                                              *)
(***************************************************************************)

\* an update run that went past the up-to-date test and has returned
Returned == upc = "done"
Installed == Returned /\ uResult = "ok" /\ uloc.tag # NoTag
Quiescent == upc \in {"idle", "done"} /\ cpc \in {"idle", "done"}

\* C1: mutual exclusion. In every interleaving of processes that acquire
\* the lock and later drop the guard, at most one process holds a
\* LockGuard at any time.
C1_MutualExclusion == Cardinality({p \in Procs : HoldsGuard(p)}) <= 1

\* C2: no partial release. Every releases/<tag> is a staging directory of
\* that tag for which unpack succeeded, the archive copy was removed and the
\* tree was synced; a release directory comes into being only by the rename
\* of atomic_move, and no step changes the contents of an existing one.
C2_NoPartialRelease ==
  /\ [](\A t \in DOMAIN releases :
          /\ releases[t].tag = t
          /\ releases[t].unpacked
          /\ ~releases[t].archive
          /\ releases[t].synced)
  /\ [][\A t \in DOMAIN releases' :
          IF t \in DOMAIN releases
            THEN releases'[t] = releases[t]
            ELSE /\ upc = "move"
                 /\ t = uloc.tag
                 /\ uloc.sid \in DOMAIN staging
                 /\ releases'[t] = staging[uloc.sid]
                 /\ uloc.sid \notin DOMAIN staging']_vars

\* a run failed after it had moved its staging directory into releases/
C2_Witness ==
  /\ Returned /\ uResult = "err"
  /\ uloc.tag \in DOMAIN releases
  /\ uloc.tag \notin DOMAIN pre.releases

\* The events the durability contract orders, numbered in that order.
DurabilityEvents ==
  {"staging_create", "unpack", "fsync_tree", "atomic_move", "fsync_releases",
   "symlink", "fsync_bin", "state_write", "state_fsync", "state_rename",
   "fsync_state_dir"}
StageOf(e) ==
  CASE e = "staging_create" -> 1
    [] e = "unpack" -> 2
    [] e = "fsync_tree" -> 3
    [] e = "atomic_move" -> 4
    [] e = "fsync_releases" -> 5
    [] e = "symlink" -> 6
    [] e = "fsync_bin" -> 7
    [] e = "state_write" -> 8
    [] e = "state_fsync" -> 9
    [] e = "state_rename" -> 10
    [] e = "fsync_state_dir" -> 11
IsDurabilityEvent(e) == e \in DurabilityEvents
Stages(tr) ==
  LET evs == SelectSeq(tr, IsDurabilityEvent)
  IN [i \in 1..Len(evs) |-> StageOf(evs[i])]
\* q starts with the staging create and goes on stage by stage; the stage of
\* the symlink writes repeats once per link and is empty when nothing links
InOrder(q, links) ==
  /\ q # <<>> => q[1] = 1
  /\ \A i \in 1..(Len(q) - 1) :
       \/ q[i + 1] = q[i] + 1
       \/ q[i] = 6 /\ q[i + 1] = 6
       \/ q[i] = 5 /\ q[i + 1] = 7 /\ links = 0
  /\ (\E i \in 1..Len(q) : q[i] = 7) =>
       Cardinality({i \in 1..Len(q) : q[i] = 6}) = links

C4_PostState ==
  Installed =>
    /\ CurrentTag(binExists, bin) = uloc.tag
    /\ state.exists /\ state.latest_tag = uloc.tag
    /\ uloc.tag \in DOMAIN releases

\* the links of bin/, as the set of their targets
LinkTargets == {bin[n] : n \in DOMAIN bin}
InstalledExecs == releases[uloc.tag].execs

IsTempNameOf(name, execs) == \E e \in execs : TmpName(FileName(e)) = name

C6_StateConsistency ==
  (Quiescent /\ state.exists) => state.latest_tag \in DOMAIN releases

C10_NeverOverwrite ==
  /\ [][(upc = "move" /\ uloc.tag \in DOMAIN releases) =>
          (/\ upc' \in {"move", "drop_unlock"}
           /\ releases' = releases
           /\ staging' = staging)]_vars
  /\ [](uloc.err = "already_exists" =>
          /\ uResult = "err"
          /\ releases = pre.releases
          /\ bin = pre.bin
          /\ state = pre.state
          /\ \A i \in 1..Len(trace) :
               trace[i] \notin {"atomic_move", "symlink", "restart", "prune",
                                "state_write", "state_rename"})

\* a run was refused by the release directory of an earlier run
C10_Witness ==
  /\ Returned
  /\ uloc.err = "already_exists"
  /\ uloc.tag \in DOMAIN releases

\* position of the first occurrence of event e in the trace, 0 when absent
FirstAt(e) ==
  IF \E i \in 1..Len(trace) : trace[i] = e
    THEN CHOOSE i \in 1..Len(trace) :
           trace[i] = e /\ \A j \in 1..(i - 1) : trace[j] # e
    ELSE 0

UpToDateReturn == uResult = "ok" /\ uloc.tag = NoTag

\* C12: up-to-date no-op. Whenever is_up_to_date holds the run goes
\* straight to its return, with success, and a run that returned this way
\* made no staging or release directory, changed no link of bin/, ran
\* neither the restart command nor prune, and left state.json as it was.
C12_UpToDateNoOp ==
  /\ [][(/\ upc = "current"
         /\ IsUpToDate(CurrentTag(binExists, bin), uloc.release,
                       uloc.existing, uloc.was_modified))
        => (/\ upc' = "drop_unlock"
            /\ uResult' = "ok" \/ uloc'.err = "io"
            /\ uloc'.tag = NoTag
            /\ trace' = <<>>
            /\ <<releases, staging, binExists, bin, state, stateTmp>>' =
               <<releases, staging, binExists, bin, state, stateTmp>>)]_vars
  /\ [](UpToDateReturn =>
          /\ trace = <<>>
          /\ uloc.verify = ""
          /\ staging = pre.staging
          /\ releases = pre.releases
          /\ bin = pre.bin /\ binExists = pre.binExists
          /\ state = pre.state
          /\ uloc.current # NoTag)

\* an update found the installed tag to be the latest, from a response that
\* carried the release (200) with validators that differ from the stored ones
C12_Witness ==
  /\ Returned /\ UpToDateReturn
  /\ uloc.release.some /\ uloc.release.tag = uloc.current
  /\ state.exists /\ state.etag # uloc.etag

\* C13: is_up_to_date is true exactly when current_tag is present and
\* either was_modified is false, a state document exists and current_tag
\* equals its latest_tag, or a release was returned and its tag equals
\* current_tag; for every combination of present and absent arguments.
C13_IsUpToDateIff ==
  (call.fn = "is_up_to_date" /\ work.done) =>
    (work.ret <=>
       /\ call.current_tag # NoTag
       /\ \/ /\ ~call.was_modified
             /\ call.existing_state.exists
             /\ call.current_tag = call.existing_state.latest_tag
          \/ /\ call.release_opt.some
             /\ call.release_opt.tag = call.current_tag)

\* true by the release alone, against a state document that names another tag
C13_Witness ==
  /\ call.fn = "is_up_to_date" /\ work.done /\ work.ret
  /\ call.was_modified
  /\ call.existing_state.exists
  /\ call.existing_state.latest_tag # call.current_tag

\* every entry of the archive lies under the one top-level directory R
SingleRootArchive(archive) ==
  /\ archive # <<>>
  /\ \A i \in 1..Len(archive) : archive[i].path[1] = "R"
\* unpack has returned Ok(())
UnpackedOk == call.fn = "unpack" /\ work.done /\ work.ret = "Ok"

\* C14: single-root flattening holds through the update pipeline. When the
\* archive, all of whose entries lie under one top-level directory R, is
\* unpacked the way install_release does it (the archive copied into the
\* staging directory first), the directory holds R's children directly and
\* no R.
C14_FlattenedInPipeline ==
  (UnpackedOk /\ call.src_in_dest /\ SingleRootArchive(call.archive)) =>
    /\ work.stripped
    /\ <<"D", "R">> \notin DOMAIN work.tree

\* C15: single-root flattening of unpack into an empty directory D. When
\* unpack returns Ok and the extracted tree has exactly one top-level entry,
\* a directory R, every path below R is found one level up, with its kind,
\* nothing else is in D and D/R is gone; otherwise the tree is left as
\* extracted.
C15_SingleRootFlattening ==
  [][(/\ call.fn = "unpack" /\ ~call.src_in_dest
      /\ ~work.done /\ work'.done /\ work'.ret = "Ok")
     => LET top == Children(work.tree, Dest) IN
          IF Cardinality(top) = 1 /\ \A r \in top : work.tree[r] = "dir"
            THEN /\ \A r \in top : r \notin DOMAIN work'.tree
                 /\ \A q \in DOMAIN work.tree :
                      Len(q) > 2 =>
                        /\ Dest \o SubSeq(q, 3, Len(q)) \in DOMAIN work'.tree
                        /\ work'.tree[Dest \o SubSeq(q, 3, Len(q))] = work.tree[q]
                 /\ Cardinality(DOMAIN work'.tree) = Cardinality(DOMAIN work.tree) - 1
            ELSE work'.tree = work.tree]_vars

\* an archive with a root directory and a file below it was flattened
C15_Witness ==
  /\ UnpackedOk /\ ~call.src_in_dest
  /\ work.stripped
  /\ <<"D", "f">> \in DOMAIN work.tree
  /\ <<"D", "R">> \notin DOMAIN work.tree

\* an entry the policy refuses: absolute path, parent-directory component,
\* or neither regular file nor directory
Refused(entry) ==
  \/ IsAbsolute(entry.path)
  \/ HasParentDir(entry.path)
  \/ entry.kind \notin {"file", "dir"}
RefusedAt(archive) == {i \in 1..Len(archive) : Refused(archive[i])}
FirstRefused(archive) ==
  CHOOSE i \in RefusedAt(archive) : \A j \in RefusedAt(archive) : i <= j
\* nothing exists outside the destination directory
NothingOutside == \A q \in DOMAIN work.tree : Inside(Dest, q)

\* C16 as stated: every archive with a refused entry makes unpack fail with
\* PathValidation, and nothing is ever created outside D.
C16_RefusedGivesPathValidation ==
  call.fn = "unpack" =>
    /\ (work.done /\ RefusedAt(call.archive) # {}) => work.ret = "PathValidation"
    /\ NothingOutside

\* C16 amended: every archive with a refused entry makes unpack fail, with
\* PathValidation at the first such entry unless an entry before it has
\* already failed with LimitExceeded or Io; and at every point of every
\* call nothing exists outside D.
C16_RefusedFailsNoTraversal ==
  call.fn = "unpack" =>
    /\ (work.done /\ RefusedAt(call.archive) # {}) =>
         \/ /\ work.ret = "PathValidation"
            /\ work.i = FirstRefused(call.archive)
         \/ /\ work.ret \in {"LimitExceeded", "Io"}
            /\ work.i < FirstRefused(call.archive)
    /\ NothingOutside

\* a tar archive was refused at a path with "..", after an entry before it
\* had been extracted into D
C16_Witness ==
  /\ call.fn = "unpack" /\ call.format = "tar"
  /\ work.done /\ work.ret = "PathValidation"
  /\ work.i > 1
  /\ HasParentDir(call.archive[work.i].path)
  /\ <<"D", "g">> \in DOMAIN work.tree

\* the regular-file entries of an archive and the sum of their declared sizes
FilesAt(archive) == {i \in 1..Len(archive) : archive[i].kind = "file"}
RECURSIVE DeclaredSum(_)
DeclaredSum(archive) ==
  IF archive = <<>> THEN 0
  ELSE (IF Head(archive).kind = "file" THEN Head(archive).size ELSE 0)
       + DeclaredSum(Tail(archive))

\* one of the four limits is exceeded by the archive
ExceedsLimits(archive, limits, format) ==
  \/ Cardinality(FilesAt(archive)) > limits.max_file_count
  \/ \E i \in FilesAt(archive) : archive[i].size > limits.max_individual_file_bytes
  \/ /\ format = "zip"
     /\ \E i \in FilesAt(archive) :
          /\ archive[i].csize > 0
          /\ archive[i].size > limits.max_decompression_ratio * archive[i].csize
  \/ DeclaredSum(archive) > limits.max_total_extracted_bytes

\* C17: extraction limits. An archive with more regular files than
\* max_file_count, or an entry whose declared size exceeds
\* max_individual_file_bytes, or (zip, compressed size > 0) an entry whose
\* declared/compressed ratio exceeds max_decompression_ratio, or declared
\* sizes that add up to more than max_total_extracted_bytes, makes
\* unpack_with_limits fail with LimitExceeded. Stated for archives none of
\* whose entries is refused by the entry policy and calls that met no I/O
\* error.
C17_LimitsEnforced ==
  (/\ call.fn = "unpack" /\ work.done
   /\ RefusedAt(call.archive) = {}
   /\ work.ret # "Io"
   /\ ExceedsLimits(call.archive, call.limits, call.format))
  => work.ret = "LimitExceeded"

Pruned == call.fn = "prune_old_releases" /\ work.done
Min(a, b) == IF a <= b THEN a ELSE b

\* C18: prune_old_releases(dir, T, N) never removes the directory named T,
\* for every N >= 0, every set of release directories and every order of
\* their mtimes: T is neither deleted nor among the failed deletions, and
\* is there afterwards if it was there before.
C18_PruneNeverRemovesCurrent ==
  Pruned =>
    /\ call.current_tag \notin work.deleted
    /\ call.current_tag \notin work.failed
    /\ call.current_tag \in DOMAIN call.rel => call.current_tag \in DOMAIN work.rel

\* T is the oldest directory and lies outside the retain window of N >= 1,
\* and a newer directory outside the window was removed
C18_Witness ==
  /\ Pruned
  /\ call.retain >= 1
  /\ call.current_tag \in DOMAIN call.rel
  /\ \A t \in DOMAIN call.rel :
       t # call.current_tag => call.rel[t].mtime > call.rel[call.current_tag].mtime
  /\ SortedIndex(call.rel, call.current_tag) >= call.retain
  /\ work.deleted # {}

InitialCount == Cardinality(DOMAIN call.rel)
RemainingCount == Cardinality(DOMAIN work.rel)
\* T is in the directory, after the first N entries of the order
CurrentOutsideWindow ==
  /\ call.current_tag \in DOMAIN call.rel
  /\ SortedIndex(call.rel, call.current_tag) >= call.retain

C19_RetentionBound ==
  (Installed /\ uloc.prune_failed = {}) =>
    Cardinality(DOMAIN releases) <= uloc.retain + 1

\* the second of two successful updates ran with retain 0 and removed the
\* release installed by the first
C19_Witness ==
  /\ Installed /\ uloc.prune_failed = {}
  /\ pre.state.exists /\ pre.state.latest_tag \in DOMAIN pre.releases
  /\ pre.state.latest_tag \notin DOMAIN releases
  /\ uloc.retain = 0
  /\ runs = 2
  /\ \E t \in Tags : t \in DOMAIN pre.releases /\ t \notin DOMAIN releases
  /\ Cardinality(DOMAIN releases) = 1

InLoop(p) == lpc[p] \in {"open", "sleeping"}

\* the lock on the file w has open was released to a waiter and is free
FreedFor(w) == flock[fd[w]] = 0 /\ work.since[fd[w]] >= 0

C21_HandOverState ==
  \A w \in Contenders :
    /\ (lpc[w] = "sleeping" /\ FreedFor(w)) =>
         work.since[fd[w]] + work.left[w] <= MaxDelay
    /\ (work.ret[w].kind = "guard" /\ work.ret[w].waited) =>
         /\ work.ret[w].late >= 0
         /\ work.ret[w].late <= MaxDelay

C21_HandOverStep ==
  \A w \in Contenders :
    (/\ lpc[w] = "open" /\ work.tries[w] > 0 /\ FreedFor(w)
     /\ lpc'[w] # lpc[w]) =>
      lpc'[w] = "held" /\ work'.ret[w].kind = "guard"

\* C21: lock hand-over. When a caller waits inside acquire and the holder
\* drops its guard, with nobody else taking the lock, the waiter's next
\* attempt comes no later than one back-off delay (at most 1 s) after the
\* release, and that attempt returns a guard, not Busy, whether or not the
\* waiter's deadline has passed in the meantime.
C21_LockHandOver == []C21_HandOverState /\ [][C21_HandOverStep]_vars

\* a waiter with a 1.6 s timeout got the guard a full second after a
\* release that came before its deadline, past the deadline
C21_Witness ==
  \E w \in Contenders :
    /\ work.ret[w].kind = "guard" /\ work.ret[w].waited
    /\ lpc[w] = "held"
    /\ work.ret[w].elapsed - work.ret[w].late < work.ret[w].timeout
    /\ work.ret[w].late = MaxDelay
    /\ work.ret[w].elapsed > work.ret[w].timeout

C22_BusyOnlyAfterTimeout ==
  \A p \in Contenders :
    /\ work.ret[p].kind = "busy" =>
         /\ work.ret[p].elapsed >= work.ret[p].timeout
         /\ work.ret[p].tries >= 1
    /\ InLoop(p) => work.elapsed[p] < work.timeout[p] + MaxDelay

C22_Terminates ==
  \A p \in Contenders : InLoop(p) ~> (lpc[p] \in {"held", "failed"})

C22_BusyWhenHeldThroughout ==
  \A p \in Contenders :
    (InLoop(p) /\ [](lpc[p] # "held")) ~> (work.ret[p].kind = "busy")

\* C22: bounded wait. acquire always returns; it returns Busy only when
\* at least the timeout has passed since it started and every lock
\* attempt it made failed; and when the lock never comes to it, it returns
\* Busy, less than the timeout plus one back-off delay after it started.
C22_BoundedWait ==
  /\ []C22_BusyOnlyAfterTimeout
  /\ C22_Terminates
  /\ C22_BusyWhenHeldThroughout

\* Busy after six failed attempts, 2.5 s into a 1.6 s timeout
C22_Witness ==
  \E p \in Contenders :
    /\ work.ret[p].kind = "busy"
    /\ work.ret[p].timeout = 16
    /\ work.ret[p].elapsed = 25
    /\ work.ret[p].tries = 6

\* positions of handle_update between the return of lock::acquire and the
\* end of its last statement
UnderLock ==
  upc \notin {"idle", "force_unlock", "acquire", "try_lock",
              "drop_unlock", "drop_remove", "done"}

GuardHeld ==
  /\ HoldsGuard(Updater)
  /\ fd[Updater] # 0 /\ flock[fd[Updater]] = Updater
  /\ lockPath = fd[Updater]

C23_HeldThroughout ==
  /\ UnderLock => GuardHeld
  /\ upc = "done" =>
       /\ lpc[Updater] \in {"idle", "failed"}
       /\ fd[Updater] = 0
       /\ \A i \in Inodes : flock[i] = 0
       /\ (trace # <<>> \/ uResult = "ok") => lpc[Updater] = "idle" /\ lockPath = 0

C23_MutationsUnderLock ==
  /\ (trace' # trace /\ trace' # <<>>) => GuardHeld /\ GuardHeld'
  /\ (upc # "idle" /\ upc # "done" /\ state' # state /\ cpc' = cpc) => GuardHeld /\ GuardHeld'
  /\ (upc = "load" /\ upc' # upc) => GuardHeld

C23_UnlockThenUnlink ==
  /\ (HoldsGuard(Updater) /\ ~HoldsGuard(Updater)') =>
       /\ upc = "drop_unlock"
       /\ lpc'[Updater] = "unlocked"
       /\ flock'[fd[Updater]] = 0
       /\ lockPath' = lockPath /\ lockPath # 0
  /\ (lpc[Updater] = "unlocked" /\ lpc'[Updater] # "unlocked") =>
       /\ upc = "drop_remove"
       /\ lockPath' = 0 /\ fd'[Updater] = 0

\* C23: scoped lock. handle_update holds the guard from before the state
\* load and before any change of the layout through the state write; on
\* every path that returns after the acquisition the guard has been
\* dropped, and the drop releases the advisory lock first and unlinks the
\* lock file second.
C23_ScopedLock ==
  /\ []C23_HeldThroughout
  /\ [][C23_MutationsUnderLock]_vars
  /\ [][C23_UnlockThenUnlink]_vars

\* a run that failed after it had moved the release into place has
\* returned, and the lock file is gone
C23_Witness ==
  /\ upc = "done" /\ uResult = "err"
  /\ FirstAt("atomic_move") > 0
  /\ lpc[Updater] = "idle" /\ lockPath = 0

\* C24: state round trip. For every state S, once save_atomic(p, S) has
\* returned Ok, load(p) returns a state equal to S; load of a path where
\* nothing exists returns absent, and load of a file that does not parse as
\* the state structure is an error.
C24_RoundTrip ==
  /\ (work.pc = "done" /\ work.save = "ok") =>
       work.loaded = [kind |-> "some", state |-> call.state]
  /\ (InState /\ work.first.kind # "unread") =>
       /\ (call.before = NoFile) => work.first.kind = "none"
       /\ (call.before \in BadFiles) => work.first.kind = "error"
       /\ (call.before = ToJson(PreviousState)) =>
            work.first = [kind |-> "some", state |-> PreviousState]

\* a state with a quote and a backslash in the tag, the empty etag and a
\* fraction of a second was saved over a file that did not load, and loaded
C24_Witness ==
  /\ InState /\ work.pc = "done" /\ work.save = "ok"
  /\ call.state.latest_tag = <<"\"", "\\">>
  /\ call.state.etag = <<>>
  /\ call.state.last_modified.nano # 0
  /\ call.before = InvalidJson /\ work.first.kind = "error"
  /\ work.loaded.kind = "some" /\ work.loaded.state = call.state

SaveOrder ==
  <<"create_dir_all", "tmp_create", "write", "fsync", "rename", "fsync_dir">>

Checked == cpc = "done" /\ cloc.err = ""

\* the validators of the response are not those of the loaded document:
\* another ETag or none, another Last-Modified text or none
ReturnedValidatorsDiffer ==
  \/ cloc.etag # cloc.existing.etag
  \/ cloc.lm # TimestampToString(cloc.existing.last_modified)

\* C26: check writes state.json if and only if a state document was
\* loaded, a current tag exists and the validators of the response differ
\* from the stored ones; the document it writes has the latest_tag and the
\* installed_at of the loaded one; without a current tag or without a
\* state document it writes nothing.
C26_CheckWrites ==
  Checked =>
    /\ cloc.wrote <=> (/\ cloc.existing.exists
                       /\ CurrentTag(binExists, bin) # NoTag
                       /\ ReturnedValidatorsDiffer)
    /\ cloc.wrote =>
         /\ state.exists
         /\ state.latest_tag = cloc.existing.latest_tag
         /\ state.installed_at = cloc.existing.installed_at
    /\ ~cloc.wrote => state = cloc.existing

\* a check that saw another release with another ETag refreshed the ETag
\* and kept the tag
C26_Witness ==
  /\ Checked /\ cloc.wrote
  /\ cloc.release.some /\ cloc.release.tag # cloc.existing.latest_tag
  /\ cloc.etag # NoEtag /\ cloc.etag # cloc.existing.etag
  /\ state.etag = cloc.etag
  /\ state.latest_tag = cloc.existing.latest_tag

\* C27: check racing with update. For every interleaving of a check run
\* with an update run of the same app, once both have finished and the
\* update has installed T', state.json names T' as latest_tag and the
\* release directory of the tag it names exists.
C27_RaceKeepsLatestTag ==
  (Installed /\ cpc = "done") =>
    /\ state.exists /\ state.latest_tag = uloc.tag
    /\ state.latest_tag \in DOMAIN releases

\* link_binaries is running or has returned
Linking ==
  upc \in {"discover", "sweep", "link_rm", "link_symlink", "link_rename",
           "fsync_bin", "restart"}
Linked == upc = "restart"

NewNames == CurrentNames(releases[uloc.tag].execs)
NewTempNames == {TmpName(b) : b \in NewNames}

OldOrNew(n) ==
  /\ n \in DOMAIN bin
  /\ \/ bin[n] = pre.bin[n]
     \/ /\ bin[n].managed /\ bin[n].tag = uloc.tag
        /\ bin[n].path \in releases[uloc.tag].execs
        /\ FileName(bin[n].path) = n

\* C29: atomic link replacement. During link_binaries, for every basename
\* that had a symlink before and is an executable of the new release,
\* bin/<basename> exists in every intermediate state and points either to
\* its previous target or to ../releases/<new tag>/<relative path>.
C29_AtomicReplacement ==
  Linking => \A n \in (DOMAIN pre.bin) \cap NewNames : OldOrNew(n)

\* the same for the basenames that are not the temp name of another
\* executable of the release
C29_AtomicReplacementButTempNames ==
  Linking => \A n \in ((DOMAIN pre.bin) \cap NewNames) \ NewTempNames : OldOrNew(n)

\* the update run loaded validators that the unchanged remote answers with
\* 304, stored beside a latest_tag that is not the tag the remote describes:
\* the state document a check leaves after the remote published T' # T
LoadedRefreshedValidators ==
  /\ uloc.existing.exists
  /\ remote.some
  /\ uloc.existing.etag = remote.val
  /\ uloc.existing.latest_tag # remote.tag

\* C30: an available update is installed even after a check. From installed
\* tag T with state.latest_tag = T, once the remote published T' # T and a
\* check stored the validators of the response describing T', an update
\* against the unchanged remote (which answers 304) does not return success
\* with T still installed: a successful run has T' installed.
C30_UpdateAfterCheckInstalls ==
  (upc = "drop_unlock" /\ uResult = "ok" /\ LoadedRefreshedValidators)
    => CurrentTag(binExists, bin) = remote.tag

\* the run met no fault of its own: no I/O error, no missing asset, no
\* verification failure, no failure of the restart command
FaultFree == uloc.err \in {"", "already_exists"}

\* the run started over what an earlier run toward the tag of the remote
\* release left behind: releases/<tag>, or a staging directory of the tag
LeftoverOf(t) ==
  \/ t \in DOMAIN pre.releases
  \/ \E s \in DOMAIN pre.staging : pre.staging[s].tag = t

\* the tag is active: bin/ has managed links and they point into releases/<t>
Active(t) ==
  /\ t \in DOMAIN releases
  /\ CurrentTag(binExists, bin) = t
  /\ \A n \in DOMAIN bin : bin[n].managed => bin[n].tag = t

\* C31: recoverability after failure. After an update run toward tag T has
\* failed at any step, a later fault-free update run against the same
\* remote release T completes with T active and state.latest_tag = T; a
\* leftover staging directory or an existing releases/T does not block it.
C31_RecoversAfterFailure ==
  (/\ Returned /\ FaultFree
   /\ uloc.release.some
   /\ LeftoverOf(uloc.release.tag)
   /\ uloc.release.execs # {})
    => /\ uResult = "ok"
       /\ Active(uloc.release.tag)
       /\ state.exists /\ state.latest_tag = uloc.release.tag

\* the same for a run that found only a leftover staging directory
C31_RecoversFromStagingLeftover ==
  (/\ Returned /\ FaultFree
   /\ uloc.release.some
   /\ LeftoverOf(uloc.release.tag)
   /\ uloc.release.tag \notin DOMAIN pre.releases
   /\ uloc.release.execs # {})
    => /\ uResult = "ok"
       /\ Active(uloc.release.tag)
       /\ state.exists /\ state.latest_tag = uloc.release.tag

\* every event a of the trace comes before every event b
AllBefore(a, b) ==
  \A i, j \in 1..Len(trace) : (trace[i] = a /\ trace[j] = b) => i < j

\* the run executed the restart command and came to the release of the lock
\* with no error but, at most, that of the restart command
HookRunReleasing ==
  /\ upc \in {"drop_unlock", "drop_remove", "done"}
  /\ uloc.tag # NoTag
  /\ uloc.err \in {"", "restart"}
  /\ FirstAt("restart") > 0

\* C32: pipeline step order around the restart hook. In an update run that
\* installs a new release, pruning of old releases happens before the
\* restart hook is executed, the restart hook is executed before the state
\* document is saved, and the save happens before the lock is released.
C32_PruneRestartSaveRelease ==
  HookRunReleasing =>
    /\ 0 < FirstAt("prune")
    /\ AllBefore("prune", "restart")
    /\ AllBefore("restart", "state_write")
    /\ 0 < FirstAt("fsync_state_dir")

\* the order of the code: the restart hook is executed before the pruning
\* of old releases, the pruning before the state document is saved, and
\* the save before the lock is released
C32_RestartPruneSaveRelease ==
  /\ HookRunReleasing =>
       /\ 0 < FirstAt("prune")
       /\ AllBefore("restart", "prune")
       /\ AllBefore("prune", "state_write")
       /\ AllBefore("state_write", "fsync_state_dir")
       /\ 0 < FirstAt("fsync_state_dir")
  /\ (FirstAt("restart") > 0 /\ upc \notin {"drop_remove", "done"}) => GuardHeld

\* a run executed the hook, pruned an earlier release, saved and returned
C32_Witness ==
  /\ Returned /\ uResult = "ok"
  /\ FirstAt("restart") > 0
  /\ \E t \in DOMAIN pre.releases : t \notin DOMAIN releases
  /\ state.latest_tag = uloc.tag
  /\ lpc[Updater] = "idle"

\* process p is in the second statement of LockGuard::drop and takes it
DropRemoveStep(p) == lpc[p] = "unlocked" /\ lpc'[p] = "idle"

\* a live guard of another process holds the advisory lock on the file
\* linked at the lock path
OthersLockFile(p) ==
  /\ lockPath # 0
  /\ \E q \in Procs \ {p} :
       HoldsGuard(q) /\ fd[q] = lockPath /\ flock[lockPath] = q

\* C33: a guard only removes its own lock file. Dropping a LockGuard never
\* unlinks a lock file on which a different live guard holds the advisory
\* lock: the file of the newer holder stays at the path.
C33_DropRemovesOwnFile ==
  [][\A p \in Procs :
       (DropRemoveStep(p) /\ OthersLockFile(p)) => lockPath' = lockPath]_vars

\* process p creates the lock file where none is linked
CreatesFresh(p) == lockPath = 0 /\ lpc[p] = "idle" /\ lpc'[p] = "open"

\* C34: forced release is unconditional. unlock succeeds whether or not the
\* lock file exists and whether or not a guard is held (a missing file is
\* no error), and leaves no lock file at the path; the next caller of acquire creates a new file, on
\* which nobody holds a lock, so its first try_lock succeeds even while the
\* original guard is still held.
C34_ForcedRelease ==
  /\ []((call.fn = "unlock" /\ ~work.existed) => work.ret = "ok")
  /\ [][/\ (call'.fn = "unlock" /\ <<call, work>>' # <<call, work>> /\ work'.ret = "ok")
             => lockPath' = 0
        /\ (lockPath # 0 /\ lockPath' = 0 /\ \A p \in Procs : lpc'[p] = lpc[p])
             => call'.fn = "unlock"
        /\ \A p \in Procs :
             CreatesFresh(p) =>
               /\ lockPath' # 0 /\ fd'[p] = lockPath'
               /\ flock'[fd'[p]] = 0
               /\ \A q \in Procs \ {p} : fd'[q] # fd'[p]]_vars

\* a guard was held when unlock ran, and another process now holds a guard
\* of its own on a new lock file
C34_Witness ==
  /\ call.fn = "unlock" /\ work.ret = "ok" /\ work.held /\ work.existed
  /\ \E p, q \in Procs :
       /\ p # q /\ HoldsGuard(p) /\ HoldsGuard(q)
       /\ fd[p] # fd[q] /\ lockPath = fd[q]

\* the run was answered 304 and found no up-to-date installation: no
\* managed link in bin/, or a current tag that is not state.latest_tag
NotModifiedNotUpToDate ==
  /\ uloc.etag # 0
  /\ ~uloc.was_modified /\ ~uloc.release.some
  /\ uloc.existing.exists
  /\ uloc.err # "io"
  /\ ~IsUpToDate(CurrentTag(pre.binExists, pre.bin), uloc.release,
                 uloc.existing, uloc.was_modified)

\* C35: no install path on 304 without an up-to-date installation. When the
\* fetch answers 304 and is_up_to_date is false, update fails with "No
\* release available" and changes nothing under releases/, bin/ or
\* state.json; the stored validators stay, so the next update against the
\* unchanged remote starts from the same state and fails the same way.
C35_NoReleaseOn304 ==
  (Returned /\ NotModifiedNotUpToDate) =>
    /\ uResult = "err" /\ uloc.err = "no_release"
    /\ releases = pre.releases /\ staging = pre.staging
    /\ bin = pre.bin /\ binExists = pre.binExists
    /\ state = pre.state
    /\ NotModified(state)

\* the second run against the unchanged remote fails so, with a current
\* tag that is not the latest_tag of the state document
C35_Witness ==
  /\ Returned /\ uloc.err = "no_release"
  /\ runs = 2 /\ published = 1
  /\ uloc.current # NoTag /\ uloc.current # state.latest_tag
  /\ pre.state = state

\* the subdirectories of the listing that stand before t when they are
\* sorted by mtime descending, then name descending
DirsBefore(t) ==
  {u \in DOMAIN call.listing :
     /\ call.listing[u].dir
     /\ \/ call.listing[u].mtime > call.listing[t].mtime
        \/ call.listing[u].mtime = call.listing[t].mtime /\ u > t}

\* C36: prune selection. prune_old_releases attempts to delete exactly the
\* subdirectories of releases_dir that are not among the first `retain` of
\* the subdirectories sorted by (mtime descending, name descending), minus
\* current_tag; entries that are not directories are neither counted toward
\* `retain` nor deleted; a missing releases_dir yields empty results.
C36_PruneSelection ==
  Pruned =>
    /\ work.deleted \cup work.failed =
         {t \in DOMAIN call.listing :
            /\ call.listing[t].dir
            /\ Cardinality(DirsBefore(t)) >= call.retain
            /\ t # call.current_tag}
    /\ work.deleted \cap work.failed = {}
    /\ DOMAIN work.listing = (DOMAIN call.listing) \ work.deleted
    /\ \A t \in DOMAIN work.listing : work.listing[t] = call.listing[t]
    /\ ~call.exists => (work.deleted = {} /\ work.failed = {})

\* a file newer than every directory does not take a place among the first
\* `retain`: with retain 1 the newest directory stays, an older one goes,
\* and the file stays
C36_Witness ==
  /\ Pruned /\ call.exists /\ call.retain = 1
  /\ \E f, d, o \in DOMAIN call.listing :
       /\ ~call.listing[f].dir /\ call.listing[d].dir /\ call.listing[o].dir
       /\ call.listing[f].mtime > call.listing[d].mtime
       /\ call.listing[d].mtime > call.listing[o].mtime
       /\ f \in DOMAIN work.listing /\ d \in DOMAIN work.listing
       /\ o \in work.deleted

\* releases/ as prune_old_releases found it: what the run started with and
\* the release it installed
BeforePrune ==
  [t \in (DOMAIN pre.releases) \cup {uloc.tag} |->
     IF t = uloc.tag THEN releases[t] ELSE pre.releases[t]]

SameAsBefore(n) == n \in DOMAIN bin /\ bin[n] = pre.bin[n]

DotTmpNames == {b \o ".tmp" : b \in NewNames}

ResolvedTarget(n) ==
  LET t == call.listing[n].target
  IN IF t[1] = "" THEN t ELSE call.bin_dir \o t
\* bin/<n> is a symlink whose target has a component `releases` followed by
\* another component
Qualifies(n) ==
  /\ call.listing[n].symlink
  /\ LET c == Components(ResolvedTarget(n))
     IN \E i \in 1..(Len(c) - 1) : c[i] = "releases"
\* the component that follows the first `releases` of the target of bin/<n>
AfterReleases(n) ==
  LET c == Components(ResolvedTarget(n))
      i == CHOOSE j \in 1..(Len(c) - 1) :
             /\ c[j] = "releases"
             /\ \A k \in 1..(j - 1) : c[k] # "releases"
  IN c[i + 1]
QualifyingLinks == {n \in DOMAIN call.listing : Qualifies(n)}

\* C40: current_tag returns None exactly when bin/ is not a directory or
\* holds no symlink whose target, a relative one taken from bin/, has a
\* component `releases` followed by another component; otherwise it returns
\* the component after `releases` of the qualifying symlink with the greatest
\* name.
C40_CurrentTagSelection ==
  (call.fn = "current_tag" /\ work.done) =>
    /\ work.result = <<>> <=> (~call.is_dir \/ QualifyingLinks = {})
    /\ work.result # <<>> =>
         \E n \in QualifyingLinks :
           /\ \A m \in QualifyingLinks : NameRank(m) <= NameRank(n)
           /\ work.result = <<AfterReleases(n)>>
\* two qualifying links of different tags, the greater name a relative link
\* of the layout's form, and the call has returned
C40_Witness ==
  /\ call.fn = "current_tag" /\ work.done
  /\ QualifyingLinks = LinkNames
  /\ call.listing["b"].target = <<"..", "releases", "v1">>
  /\ AfterReleases("a.tmp") # "v1"
  /\ work.result = <<"v1">>

============================================================================
